---- MODULE Spec2Model ----
(***************************************************************************)
(* The scheduled concurrent monitoring engine of the AliExpress price bot  *)
(* (src/main.py, the Supabase variant; src/hadef.py where it differs).     *)
(*                                                                         *)
(* The specifications below share one list of variables:                   *)
(*   SpecApi        one AliExpressAPI.get_product_details call at a time,  *)
(*                  with its rate-limit retries and the shared session;    *)
(*   SpecSession    get_session and close_session of the shared client,    *)
(*                  called by concurrent coroutines;                       *)
(*   SpecSignature  generate_signature over parameter dicts;               *)
(*   SpecLifecycle  the users table, the reminder jobs and the deadline    *)
(*                  sweep of check_monthly_updates, against user actions;  *)
(*   SpecMonths     the same jobs day after day for five weeks, one user;  *)
(*   SpecAnswers    the same with a user who answers at any moment;        *)
(*   SpecNoAnswer   the same with a user who never answers, the jobs that  *)
(*                  are due being run;                                     *)
(*   SpecFrame      its first days with every handler of one user and one  *)
(*                  polling cycle;                                         *)
(*   SpecPurge      the same jobs over tables that hold products and       *)
(*                  price history of two users;                            *)
(*   SpecMonitor    monitor_prices: selection, batches, the concurrent     *)
(*                  check_single_product tasks, against user actions;      *)
(*   SpecMonitorFair  one cycle whose every step is eventually taken,      *)
(*                  against deletions;                                     *)
(*   SpecMonitorExcel  the monitor_prices loop of src/hadef.py, whose      *)
(*                  gather lets a task's exception leave the cycle;        *)
(*   SpecStarvation the same loop cycle after cycle, with fairness;        *)
(*   SpecDetector   one check of one product over stored and fetched       *)
(*                  prices around the change threshold;                    *)
(*   SpecDrift      cycle after cycle over one product;                    *)
(*   SpecStoreError the same check with a products table that refuses the  *)
(*                  update;                                                *)
(*   SpecPrices     the same check and handle_link with any price the API  *)
(*                  returns;                                               *)
(*   SpecRefresh    the same check against a change of the user's country; *)
(*   SpecSelection  get_products_to_check over stores of every age;        *)
(*   SpecStore      sequences of DatabaseManager calls on the tables       *)
(*                  products and price_history.                            *)
(* An await in the code is a point where another coroutine of the same     *)
(* event loop may run; the code between two awaits is one action.          *)
(***************************************************************************)
EXTENDS Integers, Sequences, FiniteSets, TLC

----------------------------------------------------------------------------
\* Configuration (src/main.py 110-122).

\* CONCURRENT_REQUESTS is 10 and PRODUCTS_PER_CYCLE is 100 in the source; the
\* model keeps their roles (batch size, selection cap) at a checkable size.
CONCURRENT_REQUESTS == 2
PRODUCTS_PER_CYCLE == 3
RATE_LIMIT_RETRY_DELAY == 30
MAX_RETRIES == 3
MONTHLY_UPDATE_REMINDER_DAYS == 30
UPDATE_RESPONSE_DEADLINE_DAYS == 3

\* Bounds of the model.
MaxTime == 4
MaxUserOps == 4
MaxMonitorOps == 1
MaxFrameOps == 2
MaxRecords == 2
MaxCycles == 1
MaxStoreOps == 3
MaxCallers == 3
MaxSessions == 2
MaxParams == 3
MaxExtraDays == 2

Users == {1, 2}
ProductIds == {1, 2, 3}

None == "None"
\* None in a timestamp or id column.
Unset == 0 - 1

VARIABLES
    \* ---- clock
    now,
    \* ---- AliExpressAPI (one get_product_details call)
    session,          \* self.session: "none", "open"
    api_pc,           \* "idle", "get_session", "request", "sleeping", "returned", "raised"
    retry_count,      \* the retry_count argument of the innermost frame
    api_requests,     \* number of session.get requests issued by the call
    api_sleeps,       \* the wait_time of every asyncio.sleep of the call, in order
    api_responses,    \* what the remote API answered to every request, in order
    api_result,       \* the dict returned: [success |-> ..., error |-> ...] or None
    \* ---- AliExpressAPI.get_session and close_session, called concurrently
    sess_lock,        \* self._session_lock: "free" or "held"
    sess_pc,          \* per caller of get_session: "idle", "wait_lock", "done", "raised"
    sess_got,         \* per caller: the session its last get_session returned (a number)
    sess_made,        \* sessions created so far: the current one carries this number
    sess_closed,      \* sessions closed so far
    close_pc,         \* close_session: "idle", "closing", "sleep"
    \* ---- AliExpressAPI.generate_signature
    sig_params,       \* params: the dict, a sequence of <<key, value>> in insertion order
    sig_out,          \* <<the signature computed for the request>>, <<>> before
    sig_again,        \* <<the signature of the dict built again>>, <<>> before
    \* ---- the store (Supabase tables)
    users,            \* table users: user_id -> row (registered = FALSE: no row)
    products,         \* table products: a set of rows
    price_history,    \* table price_history: rows in insertion order
    \* ---- the reminder and removal messages delivered, as a set of <<kind, user_id>>
    sent,
    \* ---- check_monthly_updates and the reminder jobs
    sweep_pc,         \* "idle", "reminder_sleep", "purge_notify"
    need_list,        \* users_need_reminder not yet iterated
    purge_list,       \* users_past_deadline not yet iterated
    sweep_user,       \* user_id of the running loop iteration
    swept_today,      \* the daily run of check_monthly_updates has started at this `now`
    pending_jobs,     \* users with a scheduled send_monthly_reminder_job
    \* ---- history variables
    ever_continued,   \* users whose handle_update_continue has completed
    reminder_at,      \* user -> time of the latest set_update_reminder since the last purge
    purged,           \* users whose data the sweep has deleted
    user_ops,         \* number of user handlers run so far
    \* ---- monitor_prices and its check_single_product tasks
    mon_pc,           \* "idle", "batch" (awaiting gather), "sleep" (between batches)
    mon_running,      \* executions of monitor_prices between selection and completion
    cycles,           \* cycles completed so far
    selected,         \* products_to_check: the rows as read by the selection
    batch_first,      \* index in selected of the first product of the running batch
    task,             \* per selected product: the state of its check
    abandoned         \* the selected products the last cycle ended without having
                      \* completed their check (history variable)

poolVars == <<sess_lock, sess_pc, sess_got, sess_made, sess_closed, close_pc>>

sigVars == <<sig_params, sig_out, sig_again>>

apiVars == <<session, api_pc, retry_count, api_requests, api_sleeps, api_responses, api_result,
             poolVars, sigVars>>

storeVars == <<users, products, price_history>>

sweepVars == <<sweep_pc, need_list, purge_list, sweep_user, swept_today, pending_jobs>>

histVars == <<ever_continued, reminder_at, purged, user_ops>>

monVars == <<mon_pc, mon_running, cycles, selected, batch_first, task, abandoned>>

vars == <<now, apiVars, storeVars, sent, sweepVars, histVars, monVars>>

----------------------------------------------------------------------------
\* AliExpressAPI (src/main.py 594-858)

\* What one request can come back with.
\*   "rate_limited"  error_response whose msg matches is_rate_limited
\*   "api_error"     error_response with any other msg
\*   "timeout"       asyncio.TimeoutError
\*   "http_error"    raise_for_status() or a json/decoding exception
\*   "no_resp_key"   no key ending in _response
\*   "no_products"   empty products list
\*   "no_price"      to_float gave None for the sale price
\*   "ok"            a product with a price
Responses == {"rate_limited", "api_error", "timeout", "http_error",
              "no_resp_key", "no_products", "no_price", "ok"}

is_rate_limited(r) == r = "rate_limited"

\* A retry that timeouts share with rate limits.
ShouldRetry_Timeouts(r, rc) == (is_rate_limited(r) \/ r = "timeout") /\ rc < MAX_RETRIES

\* A retry bound that is off by one.
ShouldRetry_OffByOne(r, rc) == is_rate_limited(r) /\ rc <= MAX_RETRIES

\* is_rate_limited(error_msg) and retry_count < MAX_RETRIES (main.py 750)
ShouldRetry(r, rc) == is_rate_limited(r) /\ rc < MAX_RETRIES

\* A linear instead of an exponential backoff.
wait_time_Linear(rc) == RATE_LIMIT_RETRY_DELAY * (rc + 1)

\* RATE_LIMIT_RETRY_DELAY * (2 ** retry_count) (main.py 751)
wait_time(rc) == RATE_LIMIT_RETRY_DELAY * (2 ^ rc)

\* The dict a request's answer is turned into when the call does not retry.
ResultOf(r) ==
    CASE r = "rate_limited" -> [success |-> FALSE, error |-> "rate_limited"]
      [] r = "api_error"    -> [success |-> FALSE, error |-> "api_error"]
      [] r = "timeout"      -> [success |-> FALSE, error |-> "Request timeout"]
      [] r = "http_error"   -> [success |-> FALSE, error |-> "exception"]
      [] r = "no_resp_key"  -> [success |-> FALSE, error |-> "Invalid response"]
      [] r = "no_products"  -> [success |-> FALSE, error |-> "Product not found"]
      [] r = "no_price"     -> [success |-> FALSE, error |-> "No price available"]
      [] OTHER              -> [success |-> TRUE, error |-> None]

\* A caller starts get_product_details(product_id, country) with retry_count = 0.
get_product_details ==
    /\ api_pc = "idle"
    /\ api_pc' = "get_session"
    /\ retry_count' = 0
    /\ api_requests' = 0
    /\ api_sleeps' = <<>>
    /\ api_responses' = <<>>
    /\ api_result' = None
    /\ UNCHANGED <<now, session, poolVars, sigVars, storeVars, sent, sweepVars, histVars, monVars>>

\* session = await self.get_session(): returns the open session, or creates one.
get_session ==
    /\ api_pc = "get_session"
    /\ session' = "open"
    /\ api_pc' = "request"
    /\ UNCHANGED <<now, retry_count, api_requests, api_sleeps, api_responses, api_result, poolVars, sigVars, storeVars, sent, sweepVars, histVars, monVars>>

\* Creating the session raises (ssl context, connector). The call to get_session
\* is outside the try block of its own frame; the frame of a retry runs inside
\* the try block of the frame that awaits it, whose `except Exception` turns the
\* exception into a failure result.
get_session_raises ==
    /\ api_pc = "get_session"
    /\ session = "none"
    /\ IF retry_count = 0
         THEN /\ api_pc' = "raised"
              /\ UNCHANGED api_result
         ELSE /\ api_pc' = "returned"
              /\ api_result' = [success |-> FALSE, error |-> "exception"]
    /\ UNCHANGED <<now, session, retry_count, api_requests, api_sleeps, api_responses, poolVars, sigVars, storeVars, sent, sweepVars, histVars, monVars>>

\* session.get(...) and the handling of its answer, up to the return or the sleep.
api_request(r) ==
    /\ api_pc = "request"
    /\ api_requests' = api_requests + 1
    /\ api_responses' = Append(api_responses, r)
    /\ IF ShouldRetry(r, retry_count)
         THEN /\ api_sleeps' = Append(api_sleeps, wait_time(retry_count))
              /\ api_pc' = "sleeping"
              /\ UNCHANGED api_result
         ELSE /\ api_result' = ResultOf(r)
              /\ api_pc' = "returned"
              /\ UNCHANGED api_sleeps
    /\ UNCHANGED <<now, session, retry_count, poolVars, sigVars, storeVars, sent, sweepVars, histVars, monVars>>

\* asyncio.sleep(wait_time) is over: get_product_details(product_id, country, retry_count + 1).
api_retry ==
    /\ api_pc = "sleeping"
    /\ retry_count' = retry_count + 1
    /\ api_pc' = "get_session"
    /\ UNCHANGED <<now, session, api_requests, api_sleeps, api_responses, api_result, poolVars, sigVars, storeVars, sent, sweepVars, histVars, monVars>>

\* The caller has the result (or the exception); the client is free for the next call.
api_return ==
    /\ api_pc \in {"returned", "raised"}
    /\ api_pc' = "idle"
    /\ UNCHANGED <<now, session, retry_count, api_requests, api_sleeps, api_responses, api_result, poolVars, sigVars, storeVars, sent, sweepVars, histVars, monVars>>

\* close_session (post_shutdown): the session is closed and dropped.
close_session ==
    /\ session = "open"
    /\ session' = "none"
    /\ UNCHANGED <<now, api_pc, retry_count, api_requests, api_sleeps, api_responses, api_result, poolVars, sigVars, storeVars, sent, sweepVars, histVars, monVars>>

----------------------------------------------------------------------------
\* The shared session (src/main.py 604-628), used by concurrent callers.
\* asyncio.Lock.acquire does not suspend when the lock is free, and the body of
\* get_session holds no await: a caller that finds the lock free runs
\* get_session to its return in one step. close_session keeps the lock over
\* its two awaits.

Callers == 1..MaxCallers

\* A test that finds every session unusable.
NeedsNewSession_Always(s) == TRUE

\* `if self.session is None or self.session.closed`
NeedsNewSession(s) == s = "none" \/ s = "closed"

\* The body of get_session under the lock, for caller c: the session is
\* created if needed (or its creation raises) and returned.
SessionBody(c, raises) ==
    IF NeedsNewSession(session)
      THEN IF raises
             THEN /\ sess_pc' = [sess_pc EXCEPT ![c] = "raised"]
                  /\ UNCHANGED <<session, sess_made, sess_got>>
             ELSE /\ sess_made < MaxSessions
                  /\ session' = "open"
                  /\ sess_made' = sess_made + 1
                  /\ sess_got' = [sess_got EXCEPT ![c] = sess_made + 1]
                  /\ sess_pc' = [sess_pc EXCEPT ![c] = "done"]
      ELSE /\ ~raises
           /\ sess_got' = [sess_got EXCEPT ![c] = sess_made]
           /\ sess_pc' = [sess_pc EXCEPT ![c] = "done"]
           /\ UNCHANGED <<session, sess_made>>

\* A caller awaits get_session(): with the lock free it runs the body, with
\* the lock held it waits for it.
pool_get_session(c, raises) ==
    /\ sess_pc[c] # "wait_lock"
    /\ IF sess_lock = "free"
         THEN SessionBody(c, raises)
         ELSE /\ ~raises
              /\ sess_pc' = [sess_pc EXCEPT ![c] = "wait_lock"]
              /\ UNCHANGED <<session, sess_made, sess_got>>
    /\ UNCHANGED <<now, api_pc, retry_count, api_requests, api_sleeps, api_responses,
                   api_result, sess_lock, sess_closed, close_pc,
                   sigVars, storeVars, sent, sweepVars, histVars, monVars>>

\* The lock is released and handed to a waiting caller, which runs the body.
pool_lock_acquired(c, raises) ==
    /\ sess_pc[c] = "wait_lock"
    /\ sess_lock = "free"
    /\ SessionBody(c, raises)
    /\ UNCHANGED <<now, api_pc, retry_count, api_requests, api_sleeps, api_responses,
                   api_result, sess_lock, sess_closed, close_pc,
                   sigVars, storeVars, sent, sweepVars, histVars, monVars>>

\* close_session takes the lock and, the session being open, awaits
\* session.close().
pool_close_session ==
    /\ close_pc = "idle"
    /\ sess_lock = "free"
    /\ session = "open"
    /\ sess_lock' = "held"
    /\ close_pc' = "closing"
    /\ UNCHANGED <<now, session, api_pc, retry_count, api_requests, api_sleeps, api_responses,
                   api_result, sess_pc, sess_got, sess_made, sess_closed,
                   sigVars, storeVars, sent, sweepVars, histVars, monVars>>

\* session.close() has returned: the session is closed; asyncio.sleep(0.25).
pool_session_closed ==
    /\ close_pc = "closing"
    /\ session' = "closed"
    /\ sess_closed' = sess_closed + 1
    /\ close_pc' = "sleep"
    /\ UNCHANGED <<now, api_pc, retry_count, api_requests, api_sleeps, api_responses,
                   api_result, sess_lock, sess_pc, sess_got, sess_made,
                   sigVars, storeVars, sent, sweepVars, histVars, monVars>>

\* The sleep is over: self.session = None and the lock is released.
pool_close_done ==
    /\ close_pc = "sleep"
    /\ session' = "none"
    /\ sess_lock' = "free"
    /\ close_pc' = "idle"
    /\ UNCHANGED <<now, api_pc, retry_count, api_requests, api_sleeps, api_responses,
                   api_result, sess_pc, sess_got, sess_made, sess_closed,
                   sigVars, storeVars, sent, sweepVars, histVars, monVars>>

----------------------------------------------------------------------------
\* generate_signature (src/main.py 634-649). A string is the sequence of the
\* code points of its characters; a value is a string or None.

PyNone == [none |-> TRUE, str |-> <<>>]
Str(s) == [none |-> FALSE, str |-> s]

\* "sign"
SignKey == <<115, 105, 103, 110>>

\* The keys "B", "a", "b", "sign" and the values None, "", "x", "yz".
SigKeys == {<<66>>, <<97>>, <<98>>, SignKey}
SigValues == {PyNone, Str(<<>>), Str(<<120>>), Str(<<121, 122>>)}

\* The dicts of at most n entries: the keys of a dict are distinct.
Dicts(n) ==
    UNION {{[i \in 1..Cardinality(K) |-> <<o[i], v[o[i]]>>] :
               o \in {f \in [1..Cardinality(K) -> K] : \A i, j \in DOMAIN f : f[i] = f[j] => i = j},
               v \in [K -> SigValues]} :
           K \in {X \in SUBSET SigKeys : Cardinality(X) <= n}}

\* a < b on str: the first differing code point decides, a proper prefix is
\* smaller.
StrLess(a, b) ==
    \E i \in 1..(Len(a) + 1) :
        /\ \A j \in 1..(i - 1) : j <= Len(b) /\ a[j] = b[j]
        /\ IF i > Len(a) THEN Len(b) >= i
                         ELSE i <= Len(b) /\ a[i] < b[i]

\* str.lower() on the letters A-Z.
Lower(a) == [i \in DOMAIN a |-> IF a[i] >= 65 /\ a[i] <= 90 THEN a[i] + 32 ELSE a[i]]

\* A comparison of the lowercased keys.
KeyLess_Lowercased(a, b) == StrLess(Lower(a), Lower(b))

\* key=lambda x: x[0]: the items are compared by their raw key.
KeyLess(a, b) == StrLess(a, b)

\* sorted() is stable: an item goes before the first item of a greater key.
RECURSIVE SortedInsert(_, _)
SortedInsert(s, x) ==
    IF s = <<>> THEN <<x>>
    ELSE IF KeyLess(x[1], Head(s)[1]) THEN <<x>> \o s
    ELSE <<Head(s)>> \o SortedInsert(Tail(s), x)

RECURSIVE sorted(_)
sorted(s) ==
    IF s = <<>> THEN <<>>
    ELSE SortedInsert(sorted(SubSeq(s, 1, Len(s) - 1)), s[Len(s)])

\* {k: str(v) for k, v in params.items() if k != "sign" and v is not None and v != ""}
params_to_sign(params) ==
    SelectSeq(params, LAMBDA e : e[1] # SignKey /\ ~e[2].none /\ e[2].str # <<>>)

\* "".join(f"{k}{v}" for k, v in sorted_items)
RECURSIVE Join(_)
Join(items) ==
    IF items = <<>> THEN <<>>
    ELSE Head(items)[1] \o Head(items)[2].str \o Join(Tail(items))

canonical(params) == Join(sorted(params_to_sign(params)))

\* hmac.new(app_secret, canonical, md5).hexdigest().upper(): a function of the
\* secret and of the message, left uninterpreted.
hmac_md5(key, msg) == [key |-> key, msg |-> msg]

generate_signature(params) == hmac_md5("app_secret", canonical(params))

\* params[k] = v: an existing key keeps its place, a new key goes last.
DictSet(d, k, v) ==
    IF \E i \in DOMAIN d : d[i][1] = k
      THEN [i \in DOMAIN d |-> IF d[i][1] = k THEN <<k, v>> ELSE d[i]]
      ELSE Append(d, <<k, v>>)

\* params["sign"] = self.generate_signature(params) (src/main.py 736, 829):
\* the hex digest, a non-empty string, is kept in sig_out and stands in the
\* dict as "x".
sign_request ==
    /\ sig_out = <<>>
    /\ sig_out' = <<generate_signature(sig_params)>>
    /\ sig_params' = DictSet(sig_params, SignKey, Str(<<120>>))
    /\ UNCHANGED <<now, session, api_pc, retry_count, api_requests, api_sleeps, api_responses,
                   api_result, poolVars, sig_again,
                   storeVars, sent, sweepVars, histVars, monVars>>

\* The entries of d but for sign and for the entries without a value.
Entries(d) ==
    {d[i] : i \in {j \in DOMAIN d : d[j][1] # SignKey /\ d[j][2] \notin {PyNone, Str(<<>>)}}}

\* The same request is built again: the dict q has the entries of params in
\* any insertion order, with any value of sign or none, and with any entries
\* of value None or "" besides; it is signed.
sign_again(q) ==
    /\ sig_out # <<>>
    /\ sig_again = <<>>
    /\ Entries(q) = Entries(sig_params)
    /\ sig_again' = <<generate_signature(q)>>
    /\ sig_params' = q
    /\ UNCHANGED <<now, session, api_pc, retry_count, api_requests, api_sleeps, api_responses,
                   api_result, poolVars, sig_out,
                   storeVars, sent, sweepVars, histVars, monVars>>

----------------------------------------------------------------------------
\* DatabaseManager (src/main.py 161-587). Every method is synchronous: it runs
\* to its end without another coroutine in between. A table operator takes the
\* table value and returns the new one.

\* No row of table users for the user.
NoUser == [registered |-> FALSE, country |-> None, last_update_reminder |-> Unset,
           update_deadline |-> Unset, needs_update_response |-> FALSE]

\* An upsert that writes the whole row with its defaults.
save_user_Replaces(us, u, c) ==
    [us EXCEPT ![u] = [registered |-> TRUE, country |-> c,
                       last_update_reminder |-> Unset, update_deadline |-> Unset,
                       needs_update_response |-> FALSE]]

\* save_user: update username and country of the row, or insert a new row.
save_user(us, u, c) ==
    IF us[u].registered
      THEN [us EXCEPT ![u].country = c]
      ELSE [us EXCEPT ![u] = [registered |-> TRUE, country |-> c,
                              last_update_reminder |-> Unset, update_deadline |-> Unset,
                              needs_update_response |-> FALSE]]

get_user_country(us, u) == IF us[u].registered THEN us[u].country ELSE None

\* UPDATE products SET country WHERE user_id = u
update_user_products_country(ps, u, c) ==
    {IF r.user_id = u THEN [r EXCEPT !.country = c] ELSE r : r \in ps}

\* UPDATE users SET last_update_reminder = now, update_deadline = now + 3 days,
\* needs_update_response = True WHERE user_id = u
set_update_reminder(us, u, t) ==
    IF us[u].registered
      THEN [us EXCEPT ![u].last_update_reminder = t,
                      ![u].update_deadline = t + UPDATE_RESPONSE_DEADLINE_DAYS,
                      ![u].needs_update_response = TRUE]
      ELSE us

\* A clear_update_reminder that leaves the deadline in place.
clear_update_reminder_KeepsDeadline(us, u, t) ==
    IF us[u].registered
      THEN [us EXCEPT ![u].last_update_reminder = t,
                      ![u].needs_update_response = FALSE]
      ELSE us

\* UPDATE users SET last_update_reminder = now, update_deadline = None,
\* needs_update_response = False WHERE user_id = u
clear_update_reminder(us, u, t) ==
    IF us[u].registered
      THEN [us EXCEPT ![u].last_update_reminder = t,
                      ![u].update_deadline = Unset,
                      ![u].needs_update_response = FALSE]
      ELSE us

\* A selection with no staleness window: every user not reminded today.
get_users_needing_reminder_Daily(us, t) ==
    {u \in Users : /\ us[u].registered
                   /\ \/ us[u].last_update_reminder = Unset
                      \/ us[u].last_update_reminder < t}

\* Users never reminded, or last reminded before now - MONTHLY_UPDATE_REMINDER_DAYS.
get_users_needing_reminder(us, t) ==
    {u \in Users : /\ us[u].registered
                   /\ \/ us[u].last_update_reminder = Unset
                      \/ us[u].last_update_reminder < t - MONTHLY_UPDATE_REMINDER_DAYS}

\* A selection that forgets to compare the deadline with now.
get_users_past_deadline_NoCompare(us, t) ==
    {u \in Users : /\ us[u].registered
                   /\ us[u].needs_update_response
                   /\ us[u].update_deadline # Unset}

\* Rows with needs_update_response = True whose update_deadline is set and before now.
get_users_past_deadline(us, t) ==
    {u \in Users : /\ us[u].registered
                   /\ us[u].needs_update_response
                   /\ us[u].update_deadline # Unset
                   /\ t > us[u].update_deadline}

\* A products row.
Row(u, p, price, c, t) ==
    [user_id |-> u, product_id |-> p, current_price |-> price, country |-> c, last_checked |-> t]

\* A save_product that inserts without looking for the row.
save_product_AlwaysInserts(ps, u, p, price, c, t) == ps \cup {Row(u, p, price, c, t)}

\* save_product: the existence check and the update both select on product_id
\* alone; the update writes every column of product_data, user_id included.
save_product(ps, u, p, price, c, t) ==
    IF \E r \in ps : r.product_id = p
      THEN {IF r.product_id = p THEN Row(u, p, price, c, t) ELSE r : r \in ps}
      ELSE ps \cup {Row(u, p, price, c, t)}

get_user_products(ps, u) == {r \in ps : r.user_id = u}

\* DELETE FROM products WHERE user_id = u AND product_id = p
delete_product(ps, u, p) == {r \in ps : ~(r.user_id = u /\ r.product_id = p)}

\* delete_all_user_data, table products
delete_user_products(ps, u) == {r \in ps : r.user_id # u}

\* A deletion of the whole table price_history.
delete_user_history_Everyone(h, u) == <<>>

\* delete_all_user_data, table price_history
delete_user_history(h, u) == SelectSeq(h, LAMBDA x : x.user_id # u)

\* An update that stamps the row with the start of the clock.
update_product_price_Epoch(ps, u, p, price, c, t) ==
    {IF r.product_id = p
       THEN [r EXCEPT !.current_price = price, !.last_checked = 0]
       ELSE r : r \in ps}

\* UPDATE products SET current_price, last_checked = now [, country]
\* WHERE product_id = p: user_id is a parameter the query does not use.
update_product_price(ps, u, p, price, c, t) ==
    {IF r.product_id = p
       THEN [r EXCEPT !.current_price = price, !.last_checked = t,
                      !.country = IF c # None THEN c ELSE @]
       ELSE r : r \in ps}

\* An order that puts the rows without last_checked last.
LastCheckedBefore_NullsLast(a, b) == b = Unset \/ (a # Unset /\ a <= b)

\* order('last_checked', desc=False, nullsfirst=True): a row with last_checked
\* a may come before one with last_checked b.
LastCheckedBefore(a, b) == a = Unset \/ (b # Unset /\ a <= b)

\* The first k rows of ps in that order, as the query produces them: a first
\* row of the order, then the first k - 1 rows of the rest.
RECURSIVE OrderedRows(_, _)
OrderedRows(ps, k) ==
    IF k = 0 \/ ps = {}
      THEN {<<>>}
      ELSE UNION {{<<r>> \o s : s \in OrderedRows(ps \ {r}, k - 1)} :
                    r \in {x \in ps : \A y \in ps :
                                         LastCheckedBefore(x.last_checked, y.last_checked)}}

\* A selection that returns every row twice.
get_products_to_check_Twice(ps, limit) ==
    {s \o s : s \in OrderedRows(ps, IF Cardinality(ps) < limit THEN Cardinality(ps) ELSE limit)}

\* get_products_to_check: SELECT * ORDER BY last_checked ASC LIMIT limit. Rows
\* of equal last_checked come in any order: the set of the possible answers.
get_products_to_check(ps, limit) ==
    OrderedRows(ps, IF Cardinality(ps) < limit THEN Cardinality(ps) ELSE limit)

Abs(x) == IF x < 0 THEN 0 - x ELSE x

\* Prices are in thousandths of the currency unit: 0.01 is Cent.
Cent == 10

\* round(n / d, 0) for d > 0: to the nearest integer, a tie to the even one.
RoundDiv(n, d) ==
    LET f == n \div d
        r == n - f * d
    IN  IF 2 * r < d THEN f
        ELSE IF 2 * r > d THEN f + 1
        ELSE IF f % 2 = 0 THEN f ELSE f + 1

\* round(x, 2) of an amount.
Round2(x) == RoundDiv(x, Cent) * Cent

\* A percent cut off after two decimals instead of rounded.
change_percent_Truncated(old, new) ==
    IF old > 0 THEN ((new - old) * 10000) \div old ELSE 0

\* change_percent of save_price_change, in hundredths of a percent:
\* round((new - old) / old * 100, 2) if old_price > 0 else 0.
change_percent(old, new) ==
    IF old > 0 THEN RoundDiv((new - old) * 10000, old) ELSE 0

\* The row save_price_change inserts: the prices and the change are rounded
\* to two decimals, the percent is taken from the prices as they came.
HistoryRecord(u, p, old, new) ==
    [user_id |-> u, product_id |-> p, old_price |-> Round2(old), new_price |-> Round2(new),
     change_amount |-> Round2(new - old), change_percent |-> change_percent(old, new)]

\* The prices are floats. For two prices exactly one cent apart the float
\* difference is not 0.01 but the nearest float of the difference of the two
\* nearest floats, which falls on either side of the float 0.01:
\*   10.01 - 10.00 = 0.009999999999999787     9.01 - 9.00 likewise
\*   20.01 - 20.00 = 0.010000000000001563     17.51 - 17.50 likewise
\* The lower prices of the pairs one cent apart, by the side of their
\* difference; every such pair of the prices used below is in one of them.
CentStepsBelow == {9000, 10000}
CentStepsAbove == {17500, 20000}

\* abs(new - old) against 0.01, as the floats compare: "below", "equal", "above".
float_abs_diff(old, new) ==
    LET d == Abs(new - old)
        lo == IF old < new THEN old ELSE new
    IN  IF d < Cent THEN "below"
        ELSE IF d > Cent THEN "above"
        ELSE IF lo \in CentStepsBelow THEN "below"
        ELSE IF lo \in CentStepsAbove THEN "above"
        ELSE "equal"

\* A save_price_change that keeps the last change only.
save_price_change_Overwrites(h, u, p, old, new) ==
    IF float_abs_diff(old, new) = "below" THEN h ELSE <<HistoryRecord(u, p, old, new)>>

\* A save_price_change that skips every difference of one cent or less.
save_price_change_SkipsCent(h, u, p, old, new) ==
    IF Abs(new - old) <= Cent THEN h ELSE Append(h, HistoryRecord(u, p, old, new))

\* save_price_change: nothing if abs(new_price - old_price) < 0.01, else one row
\* of price_history.
save_price_change(h, u, p, old, new) ==
    IF float_abs_diff(old, new) = "below" THEN h ELSE Append(h, HistoryRecord(u, p, old, new))

----------------------------------------------------------------------------
\* The calls of the DatabaseManager methods on the tables products and
\* price_history, by any caller with any arguments (SpecStore).

db_save_product(u, p, price, c) ==
    /\ products' = save_product(products, u, p, price, c, now)
    /\ user_ops' = user_ops + 1
    /\ UNCHANGED <<now, apiVars, users, price_history, sent, sweepVars,
                   ever_continued, reminder_at, purged, monVars>>

db_update_product_price(u, p, price, c) ==
    /\ products' = update_product_price(products, u, p, price, c, now)
    /\ user_ops' = user_ops + 1
    /\ UNCHANGED <<now, apiVars, users, price_history, sent, sweepVars,
                   ever_continued, reminder_at, purged, monVars>>

db_update_user_products_country(u, c) ==
    /\ products' = update_user_products_country(products, u, c)
    /\ user_ops' = user_ops + 1
    /\ UNCHANGED <<now, apiVars, users, price_history, sent, sweepVars,
                   ever_continued, reminder_at, purged, monVars>>

db_delete_product(u, p) ==
    /\ products' = delete_product(products, u, p)
    /\ user_ops' = user_ops + 1
    /\ UNCHANGED <<now, apiVars, users, price_history, sent, sweepVars,
                   ever_continued, reminder_at, purged, monVars>>

db_save_price_change(u, p, old, new) ==
    /\ price_history' = save_price_change(price_history, u, p, old, new)
    /\ user_ops' = user_ops + 1
    /\ UNCHANGED <<now, apiVars, users, products, sent, sweepVars,
                   ever_continued, reminder_at, purged, monVars>>

db_delete_all_user_data(u) ==
    /\ products' = delete_user_products(products, u)
    /\ price_history' = delete_user_history(price_history, u)
    /\ user_ops' = user_ops + 1
    /\ UNCHANGED <<now, apiVars, users, sent, sweepVars,
                   ever_continued, reminder_at, purged, monVars>>

----------------------------------------------------------------------------
\* The clock. In SpecLifecycle a unit is a day. A reminder job is scheduled
\* one second ahead (run_once(when=1)) and a run of check_monthly_updates
\* awaits seconds: both are over before the day is. The clock does not move
\* while a polling cycle runs: the writes of a cycle carry one timestamp.
Tick ==
    /\ now < MaxTime
    /\ pending_jobs = {}
    /\ sweep_pc = "idle"
    /\ mon_pc = "idle"
    /\ now' = now + 1
    /\ swept_today' = FALSE
    /\ UNCHANGED <<apiVars, storeVars, sent, sweep_pc, need_list, purge_list, sweep_user,
                   pending_jobs, histVars, monVars>>

\* The last day of the long runs: a reminder, its deadline, the purge and the
\* staleness window of the next reminder fit in.
LastDay == MONTHLY_UPDATE_REMINDER_DAYS + UPDATE_RESPONSE_DEADLINE_DAYS + MaxExtraDays

\* A day of a bot that stays up: check_monthly_updates is a repeating job of
\* interval MONTHLY_CHECK_INTERVAL (one day), so the day ends after its run.
DayPasses ==
    /\ now < LastDay
    /\ swept_today
    /\ pending_jobs = {}
    /\ sweep_pc = "idle"
    /\ mon_pc = "idle"
    /\ now' = now + 1
    /\ swept_today' = FALSE
    /\ UNCHANGED <<apiVars, storeVars, sent, sweep_pc, need_list, purge_list, sweep_user,
                   pending_jobs, histVars, monVars>>

----------------------------------------------------------------------------
\* User actions (handlers of src/main.py)

\* country_selected: save_user, then update_user_products_country.
country_selected(u, c) ==
    /\ users' = save_user(users, u, c)
    /\ products' = update_user_products_country(products, u, c)
    /\ user_ops' = user_ops + 1
    /\ UNCHANGED <<now, apiVars, price_history, sent, sweepVars,
                   ever_continued, reminder_at, purged, monVars>>

\* handle_link, from the fetched details on: save_product with the fetched price
\* and the user's country. The ConversationHandler routes a link to handle_link
\* only after country_selected.
handle_link(u, p, price) ==
    /\ users[u].registered
    /\ products' = save_product(products, u, p, price, get_user_country(users, u), now)
    /\ user_ops' = user_ops + 1
    /\ UNCHANGED <<now, apiVars, users, price_history, sent, sweepVars,
                   ever_continued, reminder_at, purged, monVars>>

\* delete_product_callback: the button of one of the user's listed products.
delete_product_callback(u, p) ==
    /\ \E r \in products : r.user_id = u /\ r.product_id = p
    /\ products' = delete_product(products, u, p)
    /\ user_ops' = user_ops + 1
    /\ UNCHANGED <<now, apiVars, users, price_history, sent, sweepVars,
                   ever_continued, reminder_at, purged, monVars>>

\* The user has been sent a reminder, whose keyboard holds "Continue Monitoring".
HasReminderMessage(u) == <<"reminder", u>> \in sent

\* handle_update_continue: clear_update_reminder.
handle_update_continue(u) ==
    /\ HasReminderMessage(u)
    /\ users' = clear_update_reminder(users, u, now)
    /\ ever_continued' = ever_continued \cup {u}
    /\ user_ops' = user_ops + 1
    /\ UNCHANGED <<now, apiVars, products, price_history, sent, sweepVars, reminder_at, purged, monVars>>

----------------------------------------------------------------------------
\* The Engagement Lifecycle Manager (src/main.py 1554-1628)

\* A reminder job that trusts the check made when it was scheduled.
send_monthly_reminder_job_NoRecheck(u, delivered) ==
    /\ u \in pending_jobs
    /\ pending_jobs' = pending_jobs \ {u}
    /\ users' = set_update_reminder(users, u, now)
    /\ reminder_at' = IF users[u].registered
                        THEN [reminder_at EXCEPT ![u] = now]
                        ELSE reminder_at
    /\ sent' = IF delivered THEN sent \cup {<<"reminder", u>>} ELSE sent
    /\ UNCHANGED <<now, apiVars, products, price_history, sweep_pc, need_list, purge_list,
                   sweep_user, swept_today, ever_continued, purged, user_ops, monVars>>

\* send_monthly_reminder_job: nothing for a user without products; otherwise
\* set_update_reminder and the reminder message, whose failure is logged.
send_monthly_reminder_job(u, delivered) ==
    /\ u \in pending_jobs
    /\ pending_jobs' = pending_jobs \ {u}
    /\ IF get_user_products(products, u) = {}
         THEN UNCHANGED <<users, sent, reminder_at>>
         ELSE /\ users' = set_update_reminder(users, u, now)
              /\ reminder_at' = IF users[u].registered
                                  THEN [reminder_at EXCEPT ![u] = now]
                                  ELSE reminder_at
              /\ sent' = IF delivered THEN sent \cup {<<"reminder", u>>} ELSE sent
    /\ UNCHANGED <<now, apiVars, products, price_history, sweep_pc, need_list, purge_list,
                   sweep_user, swept_today, ever_continued, purged, user_ops, monVars>>

\* `for user_id in users_past_deadline`, up to its next await: the loop awaits
\* send_message for the next user of P, or is over and the job returns.
PurgeStep(P) ==
    IF P = {}
      THEN /\ sweep_pc' = "idle"
           /\ purge_list' = {}
           /\ sweep_user' = Unset
      ELSE \E u \in P :
             /\ sweep_user' = u
             /\ purge_list' = P \ {u}
             /\ sweep_pc' = "purge_notify"

\* `for user_id in users_need_reminder`, up to its next await: users without
\* products are passed over, a user with products gets a reminder job and the
\* loop sleeps two seconds; after the loop, with no await in between,
\* users_past_deadline = get_users_past_deadline() and the purge loop starts.
\* The rows come in no stated order.
ReminderStep(N) ==
    IF \E u \in N : get_user_products(products, u) # {}
      THEN \E u \in N :
             /\ get_user_products(products, u) # {}
             /\ \E S \in SUBSET {v \in N : get_user_products(products, v) = {}} :
                    need_list' = (N \ {u}) \ S
             /\ pending_jobs' = pending_jobs \cup {u}
             /\ sweep_pc' = "reminder_sleep"
             /\ UNCHANGED <<purge_list, sweep_user>>
      ELSE /\ need_list' = {}
           /\ UNCHANGED pending_jobs
           /\ PurgeStep(get_users_past_deadline(users, now))

\* The job queue starts check_monthly_updates (run_repeating, once a day; the
\* job queue runs one instance of a job at a time): get_users_needing_reminder
\* and the reminder loop.
check_monthly_updates ==
    /\ sweep_pc = "idle"
    /\ ~swept_today
    /\ swept_today' = TRUE
    /\ ReminderStep(get_users_needing_reminder(users, now))
    /\ UNCHANGED <<now, apiVars, storeVars, sent, histVars, monVars>>

\* asyncio.sleep(2) is over: the reminder loop goes on.
sweep_reminder_sleep_done ==
    /\ sweep_pc = "reminder_sleep"
    /\ ReminderStep(need_list)
    /\ UNCHANGED <<now, apiVars, storeVars, sent, swept_today, histVars, monVars>>

\* A purge loop that a failed send_message ends.
sweep_purge_delete_StopsOnFailure(delivered) ==
    /\ sweep_pc = "purge_notify"
    /\ IF delivered
         THEN /\ sent' = sent \cup {<<"removed", sweep_user>>}
              /\ products' = delete_user_products(products, sweep_user)
              /\ price_history' = delete_user_history(price_history, sweep_user)
              /\ users' = clear_update_reminder(users, sweep_user, now)
              /\ purged' = purged \cup {sweep_user}
              /\ reminder_at' = [reminder_at EXCEPT ![sweep_user] = Unset]
              /\ PurgeStep(purge_list)
         ELSE /\ PurgeStep({})
              /\ UNCHANGED <<sent, storeVars, purged, reminder_at>>
    /\ UNCHANGED <<now, apiVars, need_list, swept_today, pending_jobs, ever_continued, user_ops, monVars>>

\* send_message has returned or raised (the exception is passed over):
\* delete_all_user_data, clear_update_reminder, and the purge loop goes on.
sweep_purge_delete(delivered) ==
    /\ sweep_pc = "purge_notify"
    /\ sent' = IF delivered THEN sent \cup {<<"removed", sweep_user>>} ELSE sent
    /\ products' = delete_user_products(products, sweep_user)
    /\ price_history' = delete_user_history(price_history, sweep_user)
    /\ users' = clear_update_reminder(users, sweep_user, now)
    /\ purged' = purged \cup {sweep_user}
    /\ reminder_at' = [reminder_at EXCEPT ![sweep_user] = Unset]
    /\ PurgeStep(purge_list)
    /\ UNCHANGED <<now, apiVars, need_list, swept_today, pending_jobs, ever_continued, user_ops, monVars>>

----------------------------------------------------------------------------
\* The Polling Scheduler (src/main.py 1422-1551)

\* price_changed = abs(new_price - old_price) > 0.01
price_changed(old, new) == float_abs_diff(old, new) = "above"

\* A check not started yet.
\*   st       "waiting", "fetching", "notifying", "done"
\*   country  user_country
\*   price    result['price']
\*   sent_to  the chat_id of every notification the check has dispatched
\*   result   "changed", "same" (success, with or without a change), "failed"
\*            (get_product_details failed), "error" (an exception was caught)
\*   wrote    update_product_price has stored the fetched price
\*   send     what the send of the notification did: "none" (not attempted),
\*            "delivered", "failed" (it raised and the handler logged it)
NewTask == [st |-> "waiting", country |-> None, price |-> Unset, sent_to |-> <<>>,
            wrote |-> FALSE, send |-> "none", result |-> "none"]

\* The indices of the batch products_to_check[i:i + CONCURRENT_REQUESTS].
BatchOf(sel, i) ==
    {j \in 1..Len(sel) : i <= j /\ j < i + CONCURRENT_REQUESTS}

\* The tasks of a batch start: each reads the user's country (the row's country
\* for a user without a row) and awaits get_product_details.
StartBatch(tk, sel, i) ==
    [j \in 1..Len(sel) |->
        IF j \in BatchOf(sel, i)
          THEN [tk[j] EXCEPT !.st = "fetching",
                             !.country = IF get_user_country(users, sel[j].user_id) # None
                                           THEN get_user_country(users, sel[j].user_id)
                                           ELSE sel[j].country]
          ELSE tk[j]]

\* A start that does not look at the running instances.
CanStartCycle_Always(running) == TRUE

\* The job queue runs one instance of the monitor_prices job at a time: a run
\* that comes due while the previous one is executing is skipped.
CanStartCycle(running) == running = 0

\* A join satisfied by the first completed task.
BatchJoined_Any(tk, sel, i) == \E j \in BatchOf(sel, i) : tk[j].st = "done"

\* await asyncio.gather(*tasks, return_exceptions=True) returns.
BatchJoined(tk, sel, i) == \A j \in BatchOf(sel, i) : tk[j].st = "done"

\* The count of the completed cycles, which stops at MaxCycles.
CycleDone(c) == IF c < MaxCycles THEN c + 1 ELSE c

\* The selected products whose check has not completed.
Unfinished(tk) == {j \in DOMAIN tk : tk[j].st # "done"}

\* monitor_prices starts: get_products_to_check(PRODUCTS_PER_CYCLE); it returns
\* at once if there is no product, else the first batch starts.
monitor_prices ==
    /\ CanStartCycle(mon_running)
    /\ \E sel \in get_products_to_check(products, PRODUCTS_PER_CYCLE) :
         IF sel = <<>>
           THEN UNCHANGED monVars
           ELSE /\ selected' = sel
                /\ task' = StartBatch([j \in 1..Len(sel) |-> NewTask], sel, 1)
                /\ batch_first' = 1
                /\ mon_pc' = "batch"
                /\ mon_running' = mon_running + 1
                /\ abandoned' = {}
                /\ UNCHANGED cycles
    /\ UNCHANGED <<now, apiVars, storeVars, sent, sweepVars, histVars>>

\* check_single_product, from the return of get_product_details to the next
\* await or to its return. out is what get_product_details did: "ok" with the
\* price q, "fail" (a result with success = False), "raised"; "store_failed"
\* is "ok" with an update of the products table that raises inside
\* update_product_price, which logs the exception and returns.
check_fetched(j, out, q) ==
    /\ j \in DOMAIN task
    /\ task[j].st = "fetching"
    /\ LET row == selected[j]
           old == row.current_price
       IN  CASE out = "raised" ->
                  /\ task' = [task EXCEPT ![j].st = "done", ![j].result = "error"]
                  /\ UNCHANGED <<products, price_history>>
             [] out = "fail" ->
                  /\ products' = update_product_price(products, row.user_id, row.product_id,
                                                      old, task[j].country, now)
                  /\ task' = [task EXCEPT ![j].st = "done", ![j].result = "failed"]
                  /\ UNCHANGED price_history
             [] out = "ok" ->
                  /\ products' = update_product_price(products, row.user_id, row.product_id,
                                                      q, task[j].country, now)
                  /\ IF price_changed(old, q)
                       THEN /\ price_history' = save_price_change(price_history, row.user_id,
                                                                  row.product_id, old, q)
                            /\ task' = [task EXCEPT ![j].st = "notifying", ![j].price = q,
                                                     ![j].wrote = TRUE]
                       ELSE /\ task' = [task EXCEPT ![j].st = "done", ![j].price = q,
                                                     ![j].wrote = TRUE, ![j].result = "same"]
                            /\ UNCHANGED price_history
             [] out = "store_failed" ->
                  /\ UNCHANGED products
                  /\ IF price_changed(old, q)
                       THEN /\ price_history' = save_price_change(price_history, row.user_id,
                                                                  row.product_id, old, q)
                            /\ task' = [task EXCEPT ![j].st = "notifying", ![j].price = q]
                       ELSE /\ task' = [task EXCEPT ![j].st = "done", ![j].price = q,
                                                     ![j].result = "same"]
                            /\ UNCHANGED price_history
    /\ UNCHANGED <<now, apiVars, users, sent, sweepVars, histVars,
                   mon_pc, mon_running, cycles, selected, batch_first, abandoned>>

\* A check that lets the failure of the send reach its outer handler.
check_notified_Propagates(j, out) ==
    /\ j \in DOMAIN task
    /\ task[j].st = "notifying"
    /\ IF out = "delivered"
         THEN task' = [task EXCEPT ![j].st = "done", ![j].result = "changed",
                                   ![j].send = "delivered",
                                   ![j].sent_to = Append(@, selected[j].user_id)]
         ELSE task' = [task EXCEPT ![j].st = "done", ![j].result = "error",
                                   ![j].send = IF out = "send_failed" THEN "failed" ELSE "none"]
    /\ UNCHANGED <<now, apiVars, storeVars, sent, sweepVars, histVars,
                   mon_pc, mon_running, cycles, selected, batch_first, abandoned>>

\* check_single_product, after generate_affiliate_link: send_photo or
\* send_message to the row's user_id ("delivered"), whose failure is logged
\* ("send_failed"); the check returns success. "raised": generate_affiliate_link
\* raised before anything was sent, and the check returns a failure.
check_notified(j, out) ==
    /\ j \in DOMAIN task
    /\ task[j].st = "notifying"
    /\ IF out = "raised"
         THEN task' = [task EXCEPT ![j].st = "done", ![j].result = "error"]
         ELSE task' = [task EXCEPT ![j].st = "done", ![j].result = "changed",
                                   ![j].send = IF out = "delivered" THEN "delivered"
                                                                    ELSE "failed",
                                   ![j].sent_to = Append(@, selected[j].user_id)]
    /\ UNCHANGED <<now, apiVars, storeVars, sent, sweepVars, histVars,
                   mon_pc, mon_running, cycles, selected, batch_first, abandoned>>

\* gather returns: the results are counted; the cycle sleeps REQUEST_DELAY if
\* products are left, else monitor_prices returns.
batch_join ==
    /\ mon_pc = "batch"
    /\ BatchJoined(task, selected, batch_first)
    /\ IF batch_first + CONCURRENT_REQUESTS < Len(selected) + 1
         THEN /\ mon_pc' = "sleep"
              /\ UNCHANGED <<mon_running, cycles, selected, batch_first, task, abandoned>>
         ELSE /\ mon_pc' = "idle"
              /\ mon_running' = mon_running - 1
              /\ cycles' = CycleDone(cycles)
              /\ abandoned' = Unfinished(task)
              /\ selected' = <<>>
              /\ batch_first' = 0
              /\ task' = <<>>
    /\ UNCHANGED <<now, apiVars, storeVars, sent, sweepVars, histVars>>

\* asyncio.sleep(REQUEST_DELAY) is over: the next batch starts.
batch_sleep_done ==
    /\ mon_pc = "sleep"
    /\ batch_first' = batch_first + CONCURRENT_REQUESTS
    /\ task' = StartBatch(task, selected, batch_first + CONCURRENT_REQUESTS)
    /\ mon_pc' = "batch"
    /\ UNCHANGED <<now, apiVars, storeVars, sent, sweepVars, histVars,
                   mon_running, cycles, selected, abandoned>>

----------------------------------------------------------------------------
\* The spreadsheet variant (src/hadef.py): ExcelManager and the monitor_prices
\* loop. A row is found by user_id and product_id.

\* ExcelManager.update_product_price: the row of (u, p) gets the price, the
\* country and last_checked = now.
excel_update_product_price(ps, u, p, price, c, t) ==
    {IF r.user_id = u /\ r.product_id = p
       THEN [r EXCEPT !.current_price = price, !.last_checked = t,
                      !.country = IF c # None THEN c ELSE @]
       ELSE r : r \in ps}

\* ExcelManager.get_products_to_check: sorted by last_checked, the first limit.
excel_get_products_to_check(ps, limit) ==
    OrderedRows(ps, IF Cardinality(ps) < limit THEN Cardinality(ps) ELSE limit)

\* The batch starting at i is handed to asyncio.gather. Each get_product_details
\* first obtains the session, outside its try: the tasks of R raise there.
\* Without return_exceptions the exception leaves gather and the `except
\* Exception` around the cycle ends it: the other tasks' results are dropped,
\* the next batches never start, the loop sleeps MONITORING_INTERVAL again.
excel_start_batch(tk, sel, i, R) ==
    IF R = {}
      THEN /\ task' = [j \in 1..Len(sel) |->
                         IF j \in BatchOf(sel, i)
                           THEN [tk[j] EXCEPT !.st = "fetching", !.country = sel[j].country]
                           ELSE tk[j]]
           /\ batch_first' = i
           /\ mon_pc' = "batch"
           /\ UNCHANGED <<cycles, abandoned>>
      ELSE /\ abandoned' = Unfinished([j \in 1..Len(sel) |->
                                         IF j \in R THEN [tk[j] EXCEPT !.st = "done"]
                                                    ELSE tk[j]])
           /\ task' = <<>>
           /\ batch_first' = 0
           /\ mon_pc' = "idle"
           /\ cycles' = CycleDone(cycles)

\* asyncio.sleep(MONITORING_INTERVAL) is over: get_products_to_check; with no
\* product the loop sleeps again, else the first batch starts.
excel_monitor_prices ==
    /\ mon_pc = "idle"
    /\ \E sel \in excel_get_products_to_check(products, PRODUCTS_PER_CYCLE) :
         IF sel = <<>>
           THEN UNCHANGED monVars
           ELSE /\ \E R \in SUBSET BatchOf(sel, 1) :
                      excel_start_batch([j \in 1..Len(sel) |-> NewTask], sel, 1, R)
                /\ selected' = IF mon_pc' = "idle" THEN <<>> ELSE sel
                /\ mon_running' = IF mon_pc' = "idle" THEN 0 ELSE 1
    /\ UNCHANGED <<now, apiVars, storeVars, sent, sweepVars, histVars>>

\* A get_product_details of the batch returns its result.
excel_fetched(j, out, q) ==
    /\ j \in DOMAIN task
    /\ task[j].st = "fetching"
    /\ task' = [task EXCEPT ![j].st = "fetched",
                            ![j].price = IF out = "ok" THEN q ELSE Unset,
                            ![j].result = IF out = "ok" THEN "none" ELSE "failed"]
    /\ UNCHANGED <<now, apiVars, storeVars, sent, sweepVars, histVars,
                   mon_pc, mon_running, cycles, selected, batch_first, abandoned>>

\* `for (product, _), result in zip(tasks, results)` from index k to the next
\* await: a failed result is passed over; a success with a change is recorded
\* by save_price_change and awaits send_message; a success without one goes to
\* update_product_price. The value is the tables and the tasks at that point.
RECURSIVE excel_process(_, _, _, _, _)
excel_process(k, last, ps, h, tk) ==
    IF k > last
      THEN [ps |-> ps, h |-> h, tk |-> tk]
      ELSE LET row == selected[k]
               q   == tk[k].price
           IN  IF q = Unset
                 THEN excel_process(k + 1, last, ps, h,
                                    [tk EXCEPT ![k].st = "done"])
                 ELSE IF price_changed(row.current_price, q)
                   THEN [ps |-> ps,
                         h  |-> save_price_change(h, row.user_id, row.product_id,
                                                  row.current_price, q),
                         tk |-> [tk EXCEPT ![k].st = "notifying"]]
                   ELSE excel_process(k + 1, last,
                                      excel_update_product_price(ps, row.user_id,
                                          row.product_id, q, row.country, now),
                                      h,
                                      [tk EXCEPT ![k].st = "done", ![k].result = "same",
                                                 ![k].wrote = TRUE])

\* The last index of the running batch.
BatchLast == IF batch_first + CONCURRENT_REQUESTS - 1 < Len(selected)
               THEN batch_first + CONCURRENT_REQUESTS - 1
               ELSE Len(selected)

\* The processing loop has stopped at an await: send_message of a product, or
\* asyncio.sleep(REQUEST_DELAY) after the batch.
excel_await(next) ==
    /\ products' = next.ps
    /\ price_history' = next.h
    /\ task' = next.tk
    /\ mon_pc' = IF \E j \in DOMAIN next.tk : next.tk[j].st = "notifying"
                   THEN "notify" ELSE "sleep"

\* gather returns the results of the batch: they are processed in order.
excel_gather_join ==
    /\ mon_pc = "batch"
    /\ \A j \in BatchOf(selected, batch_first) : task[j].st = "fetched"
    /\ excel_await(excel_process(batch_first, BatchLast, products, price_history, task))
    /\ UNCHANGED <<now, apiVars, users, sent, sweepVars, histVars,
                   mon_running, cycles, selected, batch_first, abandoned>>

\* send_message has returned or raised (the exception is printed):
\* update_product_price, and the processing loop goes on.
excel_notified(k, delivered) ==
    /\ mon_pc = "notify"
    /\ k \in DOMAIN task
    /\ task[k].st = "notifying"
    /\ excel_await(excel_process(k + 1, BatchLast,
                       excel_update_product_price(products, selected[k].user_id,
                           selected[k].product_id, task[k].price, selected[k].country, now),
                       price_history,
                       [task EXCEPT ![k].st = "done", ![k].result = "changed",
                                    ![k].wrote = TRUE,
                                    ![k].sent_to = Append(@, selected[k].user_id)]))
    /\ UNCHANGED <<now, apiVars, users, sent, sweepVars, histVars,
                   mon_running, cycles, selected, batch_first, abandoned>>

\* asyncio.sleep(REQUEST_DELAY) is over: the next batch, or the cycle is over.
excel_sleep_done ==
    /\ mon_pc = "sleep"
    /\ IF batch_first + CONCURRENT_REQUESTS < Len(selected) + 1
         THEN /\ \E R \in SUBSET BatchOf(selected, batch_first + CONCURRENT_REQUESTS) :
                    excel_start_batch(task, selected, batch_first + CONCURRENT_REQUESTS, R)
              /\ selected' = IF mon_pc' = "idle" THEN <<>> ELSE selected
              /\ mon_running' = IF mon_pc' = "idle" THEN 0 ELSE mon_running
         ELSE /\ mon_pc' = "idle"
              /\ mon_running' = 0
              /\ cycles' = CycleDone(cycles)
              /\ abandoned' = Unfinished(task)
              /\ selected' = <<>>
              /\ batch_first' = 0
              /\ task' = <<>>
    /\ UNCHANGED <<now, apiVars, storeVars, sent, sweepVars, histVars>>

InitClient ==
    /\ session = "none"
    /\ api_pc = "idle"
    /\ retry_count = 0
    /\ api_requests = 0
    /\ api_sleeps = <<>>
    /\ api_responses = <<>>
    /\ api_result = None
    /\ sess_lock = "free"
    /\ sess_pc = [c \in Callers |-> "idle"]
    /\ sess_got = [c \in Callers |-> 0]
    /\ sess_made = 0
    /\ sess_closed = 0
    /\ close_pc = "idle"

\* No request has been signed.
InitSign ==
    /\ sig_params = <<>>
    /\ sig_out = <<>>
    /\ sig_again = <<>>

InitApi == InitClient /\ InitSign

\* Table users without a row.
InitUsers == [u \in Users |-> NoUser]

\* The tables are empty, no job has run.
InitStore ==
    /\ users = InitUsers
    /\ products = {}
    /\ price_history = <<>>
    /\ sent = {}

InitMonitor ==
    /\ mon_pc = "idle"
    /\ mon_running = 0
    /\ cycles = 0
    /\ selected = <<>>
    /\ batch_first = 0
    /\ task = <<>>
    /\ abandoned = {}

InitSweep ==
    /\ sweep_pc = "idle"
    /\ need_list = {}
    /\ purge_list = {}
    /\ sweep_user = Unset
    /\ swept_today = FALSE
    /\ pending_jobs = {}
    /\ ever_continued = {}
    /\ reminder_at = [u \in Users |-> Unset]
    /\ purged = {}
    /\ user_ops = 0

Init ==
    /\ now = 0
    /\ InitApi
    /\ InitStore
    /\ InitSweep
    /\ InitMonitor

NextApi ==
    \/ get_product_details
    \/ get_session
    \/ get_session_raises
    \/ \E r \in Responses : api_request(r)
    \/ api_retry
    \/ api_return
    \/ close_session

SpecApi == Init /\ [][NextApi]_vars

\* The checks of a batch and the handlers call get_session as they come;
\* close_session runs at shutdown.
NextSession ==
    \/ \E c \in Callers : pool_get_session(c, FALSE)
    \/ \E c \in Callers : pool_get_session(c, TRUE)
    \/ \E c \in Callers, raises \in BOOLEAN : pool_lock_acquired(c, raises)
    \/ pool_close_session
    \/ pool_session_closed
    \/ pool_close_done

SpecSession == Init /\ [][NextSession]_vars

\* A request of at most MaxParams parameters is signed, then built again and
\* signed again.
InitSignature ==
    /\ now = 0
    /\ InitClient
    /\ sig_params \in Dicts(MaxParams)
    /\ sig_out = <<>>
    /\ sig_again = <<>>
    /\ InitStore
    /\ InitSweep
    /\ InitMonitor

NextSignature ==
    \/ sign_request
    \/ \E q \in Dicts(MaxParams + 1) : sign_again(q)

SpecSignature == InitSignature /\ [][NextSignature]_vars

\* Inputs of the user actions in SpecLifecycle.
LifecycleProducts == {1, 2}
LifecyclePrices == {20000}

NextLifecycle ==
    \/ Tick
    \/ \E u \in Users : user_ops < MaxUserOps /\ country_selected(u, "US")
    \/ \E u \in Users, p \in LifecycleProducts, q \in LifecyclePrices : user_ops < MaxUserOps /\ handle_link(u, p, q)
    \/ \E u \in Users, p \in LifecycleProducts : user_ops < MaxUserOps /\ delete_product_callback(u, p)
    \/ \E u \in Users : user_ops < MaxUserOps /\ handle_update_continue(u)
    \/ \E u \in Users, d \in BOOLEAN : send_monthly_reminder_job(u, d)
    \/ check_monthly_updates
    \/ sweep_reminder_sleep_done
    \/ \E d \in BOOLEAN : sweep_purge_delete(d)

SpecLifecycle == Init /\ [][NextLifecycle]_vars

\* User 1 has chosen a country and tracks one product; no reminder has been
\* sent yet.
InitMonths ==
    /\ now = 0
    /\ InitApi
    /\ users = save_user(InitUsers, 1, "US")
    /\ products = {Row(1, 1, 20000, "US", 0)}
    /\ price_history = <<>>
    /\ sent = {}
    /\ InitSweep
    /\ InitMonitor

\* Five weeks of the daily sweep and its reminder jobs, with the user's
\* actions and one polling cycle at any time.
NextMonths ==
    \/ DayPasses
    \/ \E q \in LifecyclePrices : user_ops < MaxMonitorOps /\ handle_link(1, 1, q)
    \/ user_ops < MaxMonitorOps /\ handle_update_continue(1)
    \/ \E d \in BOOLEAN : send_monthly_reminder_job(1, d)
    \/ check_monthly_updates
    \/ sweep_reminder_sleep_done
    \/ \E d \in BOOLEAN : sweep_purge_delete(d)
    \/ cycles = 0 /\ monitor_prices
    \/ \E q \in {17500, 20000} : check_fetched(1, "ok", q)
    \/ check_fetched(1, "fail", Unset)
    \/ \E out \in {"delivered", "send_failed", "raised"} : check_notified(1, out)
    \/ batch_join

SpecMonths == InitMonths /\ [][NextMonths]_vars

\* The same five weeks with a user who never answers a reminder; the jobs
\* that are due run.
NextNoAnswer ==
    \/ DayPasses
    \/ \E q \in LifecyclePrices : user_ops < MaxUserOps /\ handle_link(1, 1, q)
    \/ user_ops < MaxUserOps /\ delete_product_callback(1, 1)
    \/ \E d \in BOOLEAN : send_monthly_reminder_job(1, d)
    \/ check_monthly_updates
    \/ sweep_reminder_sleep_done
    \/ \E d \in BOOLEAN : sweep_purge_delete(d)

\* The same five weeks with a user who adds products and answers, at any
\* moment, MaxFrameOps times in all.
NextAnswers ==
    \/ DayPasses
    \/ \E q \in LifecyclePrices : user_ops < MaxFrameOps /\ handle_link(1, 1, q)
    \/ user_ops < MaxFrameOps /\ handle_update_continue(1)
    \/ \E d \in BOOLEAN : send_monthly_reminder_job(1, d)
    \/ check_monthly_updates
    \/ sweep_reminder_sleep_done
    \/ \E d \in BOOLEAN : sweep_purge_delete(d)

SpecAnswers == InitMonths /\ [][NextAnswers]_vars

SpecNoAnswer == InitMonths /\ [][NextNoAnswer]_vars /\ WF_vars(NextNoAnswer)

\* Inputs of SpecMonitor: the prices handle_link stores and the checks fetch.
MonitorPrices == {17500, 20000}

\* The tables SpecMonitor starts from: the users have chosen a country and
\* have added the first k products before the first cycle, one row per
\* product_id (what save_product keeps), each row as handle_link wrote it at
\* time 0; the clock has moved on since.
TrackedRow(p) ==
    Row(IF p = 3 THEN 2 ELSE 1, p, IF p = 1 THEN 20000 ELSE IF p = 2 THEN 17500 ELSE 0, "US", 0)

TrackedStores == {{TrackedRow(p) : p \in 1..k} : k \in 0..3}

InitTracked ==
    /\ now = 1
    /\ InitApi
    /\ users = [u \in Users |-> save_user(InitUsers, u, "US")[u]]
    /\ products \in TrackedStores
    /\ price_history = <<>>
    /\ sent = {}
    /\ InitSweep
    /\ InitMonitor

\* One polling cycle, with the user handlers before, during and after it.
NextMonitor ==
    \/ \E u \in Users, p \in ProductIds, q \in MonitorPrices :
           user_ops < MaxMonitorOps /\ handle_link(u, p, q)
    \/ \E u \in Users, p \in ProductIds :
           user_ops < MaxMonitorOps /\ delete_product_callback(u, p)
    \/ cycles = 0 /\ monitor_prices
    \/ \E j \in 1..PRODUCTS_PER_CYCLE, q \in MonitorPrices : check_fetched(j, "ok", q)
    \/ \E j \in 1..PRODUCTS_PER_CYCLE : check_fetched(j, "fail", Unset)
    \/ \E j \in 1..PRODUCTS_PER_CYCLE : check_fetched(j, "raised", Unset)
    \/ \E j \in 1..PRODUCTS_PER_CYCLE, out \in {"delivered", "send_failed", "raised"} :
           check_notified(j, out)
    \/ batch_join
    \/ batch_sleep_done

SpecMonitor == InitTracked /\ [][NextMonitor]_vars

\* The steps of a running cycle: each remote call returns, each sleep ends and
\* the event loop resumes the coroutine that waits for it.
CycleStep ==
    \/ \E j \in 1..PRODUCTS_PER_CYCLE, q \in MonitorPrices : check_fetched(j, "ok", q)
    \/ \E j \in 1..PRODUCTS_PER_CYCLE : check_fetched(j, "fail", Unset)
    \/ \E j \in 1..PRODUCTS_PER_CYCLE : check_fetched(j, "raised", Unset)
    \/ \E j \in 1..PRODUCTS_PER_CYCLE, out \in {"delivered", "send_failed", "raised"} :
           check_notified(j, out)
    \/ batch_join
    \/ batch_sleep_done

\* One polling cycle, during which the users delete products.
NextCycle ==
    \/ \E u \in Users, p \in ProductIds :
           user_ops < MaxMonitorOps /\ delete_product_callback(u, p)
    \/ cycles = 0 /\ monitor_prices
    \/ CycleStep

SpecMonitorFair == InitTracked /\ [][NextCycle]_vars /\ WF_vars(CycleStep)

\* One cycle of the monitor_prices loop of src/hadef.py.
NextMonitorExcel ==
    \/ now = 1 /\ Tick
    \/ cycles = 0 /\ excel_monitor_prices
    \/ \E j \in 1..PRODUCTS_PER_CYCLE, q \in MonitorPrices : excel_fetched(j, "ok", q)
    \/ \E j \in 1..PRODUCTS_PER_CYCLE : excel_fetched(j, "fail", Unset)
    \/ excel_gather_join
    \/ \E k \in 1..PRODUCTS_PER_CYCLE, d \in BOOLEAN : excel_notified(k, d)
    \/ excel_sleep_done

SpecMonitorExcel == InitTracked /\ [][NextMonitorExcel]_vars

\* The tables SpecPurge starts from: the users have chosen a country, have
\* added products and the scheduler has recorded price changes of products
\* of both; no reminder has been sent yet.
PurgeStores ==
    {{Row(1, 1, 20000, "US", 0)},
     {Row(1, 1, 20000, "US", 0), Row(2, 2, 20000, "US", 0)},
     {Row(1, 1, 20000, "US", 0), Row(1, 2, 17500, "US", 0), Row(2, 3, 20000, "US", 0)}}

PurgeHistory ==
    <<HistoryRecord(1, 1, 17500, 20000), HistoryRecord(2, 2, 17500, 20000),
      HistoryRecord(1, 1, 20000, 17500), HistoryRecord(2, 3, 20000, 17500)>>

InitPurge ==
    /\ now = 0
    /\ InitApi
    /\ users = [u \in Users |-> save_user(InitUsers, u, "US")[u]]
    /\ products \in PurgeStores
    /\ price_history = PurgeHistory
    /\ sent = {}
    /\ InitSweep
    /\ InitMonitor

\* The reminder jobs and the daily sweep over these tables, and the users'
\* answers to the reminder.
NextPurge ==
    \/ Tick
    \/ \E u \in Users : user_ops < MaxUserOps /\ handle_update_continue(u)
    \/ \E u \in Users, d \in BOOLEAN : send_monthly_reminder_job(u, d)
    \/ check_monthly_updates
    \/ sweep_reminder_sleep_done
    \/ \E d \in BOOLEAN : sweep_purge_delete(d)

SpecPurge == InitPurge /\ [][NextPurge]_vars

\* Inputs of SpecStore.
StoreProducts == {1, 2}

StorePrices == {17500, 20000}

StoreCountries == {"US", "FR"}

InitStoreCalls ==
    /\ now = 0
    /\ InitApi
    /\ users = [u \in Users |-> save_user(InitUsers, u, "US")[u]]
    /\ products = {}
    /\ price_history = <<>>
    /\ sent = {}
    /\ InitSweep
    /\ InitMonitor

\* Up to MaxStoreOps calls, the clock running.
NextStore ==
    \/ Tick
    \/ \E u \in Users, p \in StoreProducts, q \in StorePrices, c \in StoreCountries :
           user_ops < MaxStoreOps /\ db_save_product(u, p, q, c)
    \/ \E u \in Users, p \in StoreProducts, q \in StorePrices, c \in StoreCountries \cup {None} :
           user_ops < MaxStoreOps /\ db_update_product_price(u, p, q, c)
    \/ \E u \in Users, c \in StoreCountries :
           user_ops < MaxStoreOps /\ db_update_user_products_country(u, c)
    \/ \E u \in Users, p \in StoreProducts :
           user_ops < MaxStoreOps /\ db_delete_product(u, p)
    \/ \E u \in Users, p \in StoreProducts, old, new \in StorePrices :
           user_ops < MaxStoreOps /\ db_save_price_change(u, p, old, new)
    \/ \E u \in Users :
           user_ops < MaxStoreOps /\ db_delete_all_user_data(u)

SpecStore == InitStoreCalls /\ [][NextStore]_vars

\* Inputs of SpecDetector: stored and fetched prices a fraction of a cent, one
\* cent and more apart, and the price 0. Of the two pairs one cent apart one
\* has a float difference below 0.01 and one above.
DetectorPrices == {0, 9000, 10000, 10004, 10010, 17500, 20000, 20010}

\* One product of user 1, stored at any of the prices.
InitDetector ==
    /\ now = 0
    /\ InitApi
    /\ users = [u \in Users |-> save_user(InitUsers, u, "US")[u]]
    /\ products \in {{Row(1, 1, p, "US", 0)} : p \in DetectorPrices}
    /\ price_history = <<>>
    /\ sent = {}
    /\ InitSweep
    /\ InitMonitor

\* One check of the product, against any fetched price; the owner may send the
\* link again before, during or after the check.
NextDetector ==
    \/ \E q \in DetectorPrices : user_ops < MaxMonitorOps /\ handle_link(1, 1, q)
    \/ cycles = 0 /\ monitor_prices
    \/ \E q \in DetectorPrices : check_fetched(1, "ok", q)
    \/ check_fetched(1, "fail", Unset)
    \/ \E out \in {"delivered", "send_failed", "raised"} : check_notified(1, out)
    \/ batch_join

SpecDetector == InitDetector /\ [][NextDetector]_vars

\* Polling cycle after polling cycle over the one product, until the history
\* holds MaxRecords records.
NextDrift ==
    \/ Len(price_history) < MaxRecords /\ monitor_prices
    \/ \E q \in DetectorPrices : check_fetched(1, "ok", q)
    \/ check_fetched(1, "fail", Unset)
    \/ \E out \in {"delivered", "send_failed", "raised"} : check_notified(1, out)
    \/ batch_join

SpecDrift == InitDetector /\ [][NextDrift]_vars

\* One check of the product, with a products table that may refuse the
\* update of the check.
NextStoreError ==
    \/ cycles = 0 /\ monitor_prices
    \/ \E q \in DetectorPrices : check_fetched(1, "ok", q)
    \/ \E q \in DetectorPrices : check_fetched(1, "store_failed", q)
    \/ check_fetched(1, "fail", Unset)
    \/ \E out \in {"delivered", "send_failed", "raised"} : check_notified(1, out)
    \/ batch_join

SpecStoreError == InitDetector /\ [][NextStoreError]_vars

\* The prices to_float makes of the strings of the API: float() accepts a
\* sign, so "-5.00" is a price as "0.00" and "20.00" are.
ApiPrices == {0 - 5000, 0, 20000}

\* The owner sends the link, the product is checked, the owner chooses a
\* country, with any price the API returns.
NextPrices ==
    \/ \E q \in ApiPrices : user_ops < MaxMonitorOps /\ handle_link(1, 1, q)
    \/ \E c \in StoreCountries : user_ops < MaxMonitorOps /\ country_selected(1, c)
    \/ cycles = 0 /\ monitor_prices
    \/ \E q \in ApiPrices : check_fetched(1, "ok", q)
    \/ check_fetched(1, "fail", Unset)
    \/ \E out \in {"delivered", "send_failed", "raised"} : check_notified(1, out)
    \/ batch_join

SpecPrices == InitDetector /\ [][NextPrices]_vars

\* One check of the product; the owner may choose a country before, during or
\* after the check.
NextRefresh ==
    \/ \E c \in StoreCountries : user_ops < MaxMonitorOps /\ country_selected(1, c)
    \/ cycles = 0 /\ monitor_prices
    \/ \E q \in DetectorPrices : check_fetched(1, "ok", q)
    \/ check_fetched(1, "fail", Unset)
    \/ \E out \in {"delivered", "send_failed", "raised"} : check_notified(1, out)
    \/ batch_join

SpecRefresh == InitDetector /\ [][NextRefresh]_vars

\* The days up to the purge that follows the first reminder, with every
\* handler of the user and one polling cycle (of one batch: the user tracks
\* at most two products).
NextFrame ==
    \/ now <= UPDATE_RESPONSE_DEADLINE_DAYS /\ DayPasses
    \/ \E c \in StoreCountries : user_ops < MaxFrameOps /\ country_selected(1, c)
    \/ \E p \in LifecycleProducts, q \in LifecyclePrices : user_ops < MaxFrameOps /\ handle_link(1, p, q)
    \/ \E p \in LifecycleProducts : user_ops < MaxFrameOps /\ delete_product_callback(1, p)
    \/ user_ops < MaxFrameOps /\ handle_update_continue(1)
    \/ \E d \in BOOLEAN : send_monthly_reminder_job(1, d)
    \/ check_monthly_updates
    \/ sweep_reminder_sleep_done
    \/ \E d \in BOOLEAN : sweep_purge_delete(d)
    \/ cycles = 0 /\ monitor_prices
    \/ \E j \in DOMAIN task : check_fetched(j, "ok", 17500)
    \/ \E j \in DOMAIN task : check_notified(j, "delivered")
    \/ batch_join

SpecFrame == InitMonths /\ [][NextFrame]_vars

\* Inputs of SpecSelection: one product more than a cycle selects, each one
\* absent or present with no last_checked (a row written without it, which the
\* query puts first) or with one of two times.
SelectionProducts == 1..(PRODUCTS_PER_CYCLE + 1)

SelectionTimes == {Unset, 1, 2}

SelectionStores ==
    {{Row(1, p, 20000, "US", f[p]) : p \in S} :
        S \in SUBSET SelectionProducts, f \in [SelectionProducts -> SelectionTimes]}

InitSelection ==
    /\ now = 2
    /\ InitApi
    /\ users = [u \in Users |-> save_user(InitUsers, u, "US")[u]]
    /\ products \in SelectionStores
    /\ price_history = <<>>
    /\ sent = {}
    /\ InitSweep
    /\ InitMonitor

\* The selection of one cycle.
NextSelection == cycles = 0 /\ monitor_prices

SpecSelection == InitSelection /\ [][NextSelection]_vars

\* The stores SpecStarvation starts from: one product more than a cycle
\* selects, no two of them checked at the same time.
StarvationStores ==
    {{Row(1, p, 20000, "US", f[p]) : p \in SelectionProducts} :
        f \in {g \in [SelectionProducts -> 0..PRODUCTS_PER_CYCLE] :
                  \A p, q \in SelectionProducts : p # q => g[p] # g[q]}}

InitStarvation ==
    /\ now = PRODUCTS_PER_CYCLE + 1
    /\ InitApi
    /\ users = [u \in Users |-> save_user(InitUsers, u, "US")[u]]
    /\ products \in StarvationStores
    /\ price_history = <<>>
    /\ sent = {}
    /\ InitSweep
    /\ InitMonitor

\* The monitor_prices loop of src/hadef.py, cycle after cycle, while every
\* get_product_details returns a failure or raises.
NextStarvation ==
    \/ excel_monitor_prices
    \/ \E j \in 1..PRODUCTS_PER_CYCLE : excel_fetched(j, "fail", Unset)
    \/ excel_gather_join
    \/ excel_sleep_done

\* The event loop runs a coroutine that can run: the sleeps end, the requests
\* are answered.
SpecStarvation ==
    InitStarvation /\ [][NextStarvation]_vars /\ WF_vars(NextStarvation)

----------------------------------------------------------------------------
\* Properties of the Signed API Client

\* The call has returned and every request it issued was answered `r` ...
AllAnswered(r) ==
    /\ api_pc = "returned"
    /\ api_responses # <<>>
    /\ \A i \in 1..Len(api_responses) : api_responses[i] = r

\* C6: rate-limit retries are bounded. A call never issues more than
\* MAX_RETRIES + 1 requests; and when every attempt was answered with a
\* rate-limit error (and the session was obtained for each attempt), the call
\* has issued exactly MAX_RETRIES + 1 requests, slept exactly MAX_RETRIES times
\* and returned a failure result carrying the rate-limit error.
C6_RetriesBounded ==
    /\ api_requests <= MAX_RETRIES + 1
    /\ Len(api_sleeps) <= MAX_RETRIES
    /\ (AllAnswered("rate_limited") /\ api_result # [success |-> FALSE, error |-> "exception"])
          => /\ api_requests = MAX_RETRIES + 1
             /\ Len(api_sleeps) = MAX_RETRIES
             /\ api_result = [success |-> FALSE, error |-> "rate_limited"]

C6_Witness ==
    /\ api_pc = "returned"
    /\ api_responses = <<"rate_limited", "rate_limited", "rate_limited", "rate_limited">>
    /\ api_result = [success |-> FALSE, error |-> "rate_limited"]

\* The first MAX_RETRIES attempts were rate-limited and the next one succeeded.
RateLimitedThenOk ==
    /\ api_pc = "returned"
    /\ Len(api_responses) = MAX_RETRIES + 1
    /\ \A i \in 1..MAX_RETRIES : api_responses[i] = "rate_limited"
    /\ api_responses[MAX_RETRIES + 1] = "ok"

\* C7: backoff schedule. If the first MAX_RETRIES attempts are rate-limited and
\* the next attempt succeeds, the call has slept exactly MAX_RETRIES times, the
\* k-th sleep (k = 0, 1, ...) lasting RATE_LIMIT_RETRY_DELAY * 2^k, and it
\* returns one successful result.
C7_BackoffSchedule ==
    RateLimitedThenOk
      => /\ Len(api_sleeps) = MAX_RETRIES
         /\ \A k \in 0..(MAX_RETRIES - 1) : api_sleeps[k + 1] = RATE_LIMIT_RETRY_DELAY * (2 ^ k)
         /\ api_requests = MAX_RETRIES + 1
         /\ api_result = [success |-> TRUE, error |-> None]

C7_Witness ==
    /\ RateLimitedThenOk
    /\ api_sleeps = <<30, 60, 120>>

\* C8: get_product_details never propagates an exception to its caller: every
\* call ends with a returned result value.
C8_NeverRaises == api_pc # "raised"

\* C22: a session is created only when the current one is absent or closed,
\* and one at a time; a caller to which get_session returns receives the
\* current, open session; so as long as no session has been closed at most
\* one has been created and every caller holds that one.
C22_OneSession ==
    /\ [][/\ sess_made' # sess_made
              => /\ session \in {"none", "closed"}
                 /\ sess_made' = sess_made + 1
          /\ \A c \in Callers :
                (sess_pc'[c] = "done" /\ (sess_pc[c] # "done" \/ sess_got'[c] # sess_got[c]))
                  => sess_got'[c] = sess_made' /\ session' = "open"]_vars
    /\ [](sess_made <= sess_closed + 1)
    /\ [](sess_closed = 0
            => \A c \in Callers : sess_pc[c] = "done" => sess_got[c] = 1 /\ sess_made = 1)

\* Every caller has called get_session before any close and all hold the one
\* session that was created.
C22_Witness ==
    /\ sess_closed = 0
    /\ sess_made = 1
    /\ \A c \in Callers : sess_pc[c] = "done" /\ sess_got[c] = 1

----------------------------------------------------------------------------
\* Properties of the Engagement Lifecycle Manager

\* The step in which the sweep calls delete_all_user_data(u).
SweepDeletes(u) ==
    /\ sweep_pc = "purge_notify"
    /\ sweep_user = u
    /\ purged' = purged \cup {u}
    /\ sweep_user' # u

\* C1: once a user's "continue monitoring" response has completed, the sweep
\* deletes that user's data only after a new reminder has been set for the user
\* (needs_update_response is true again) and its deadline has passed, also
\* when the response arrives while check_monthly_updates is running.
C1_ContinueProtects ==
    [][\A u \in Users :
          (SweepDeletes(u) /\ u \in ever_continued)
            => /\ users[u].needs_update_response
               /\ users[u].update_deadline # Unset
               /\ now > users[u].update_deadline]_vars

\* The users whose data the running sweep is going to delete.
PurgePending ==
    purge_list \cup (IF sweep_pc = "purge_notify" THEN {sweep_user} ELSE {})

\* C2: the sweep purges a user only after a reminder and its response window:
\* every user whose data check_monthly_updates is going to delete has been
\* reminded since their last purge (set_update_reminder has run for them), and
\* at least UPDATE_RESPONSE_DEADLINE_DAYS have passed since that reminder.
C2_PurgeOnlyAfterDeadline ==
    \A u \in PurgePending :
        /\ reminder_at[u] # Unset
        /\ now >= reminder_at[u] + UPDATE_RESPONSE_DEADLINE_DAYS

C2_Witness ==
    \E u \in purged :
        /\ <<"reminder", u>> \in sent
        /\ get_user_products(products, u) = {}
        /\ ~users[u].needs_update_response

\* The records of price_history that are not of user u.
HistoryOfOthers(h, u) == SelectSeq(h, LAMBDA x : x.user_id # u)

C17_ReminderOnlyForOwners ==
    \A u \in get_users_needing_reminder(users, now) : get_user_products(products, u) # {}

\* C18: for every user, needs_update_response is true if and only if
\* update_deadline is set.
C18_FlagIffDeadline ==
    \A u \in Users : users[u].needs_update_response <=> users[u].update_deadline # Unset

\* One user waits for an answer to a reminder, with a deadline; the other has
\* answered or has been purged, and has neither flag nor deadline.
C18_Witness ==
    \E u, v \in Users :
        /\ users[u].needs_update_response
        /\ users[u].update_deadline = reminder_at[u] + UPDATE_RESPONSE_DEADLINE_DAYS
        /\ v \in ever_continued \cup purged
        /\ ~users[v].needs_update_response
        /\ users[v].update_deadline = Unset

----------------------------------------------------------------------------
\* Properties of the Polling Scheduler

InFlight == {j \in DOMAIN task : task[j].st \in {"fetching", "notifying"}}

\* The number of the batch the j-th selected product is in.
BatchNo(j) == (j - 1) \div CONCURRENT_REQUESTS

\* C4: no check of a later batch has started before every check of the earlier
\* batches has completed, and never more than CONCURRENT_REQUESTS checks are in
\* flight.
C4_BatchJoin ==
    /\ Cardinality(InFlight) <= CONCURRENT_REQUESTS
    /\ \A j, k \in DOMAIN task :
          (BatchNo(j) < BatchNo(k) /\ task[k].st # "waiting") => task[j].st = "done"

\* A check of the second batch is in flight.
C4_Witness ==
    \E k \in DOMAIN task :
        /\ BatchNo(k) = 1
        /\ task[k].st = "fetching"
        /\ \E j \in DOMAIN task : BatchNo(j) = 0 /\ task[j].result = "failed"

\* C5: a cycle ends with the check of every selected product completed: the
\* failure of one product's check (an exception included) leaves no other
\* product of its batch unprocessed and no later batch unstarted.
C5_BatchIsolation == abandoned = {}

\* The check of the j-th selected product writes the outcome of a failed
\* get_product_details in this step.
FailedCheckWrites(j) ==
    /\ j \in DOMAIN task
    /\ j \in DOMAIN task'
    /\ task[j].st = "fetching"
    /\ task'[j].result = "failed"

\* C9: when get_product_details has failed for a selected product, the check
\* leaves the stored current_price of the user's product as it was right before
\* the check's write (whoever wrote it last), refreshes its last_checked,
\* appends no PriceHistoryRecord and sends no notification.
C9_FailedCheckKeepsPrice ==
    [][\A j \in 1..PRODUCTS_PER_CYCLE :
          FailedCheckWrites(j)
            => /\ \A r \in products :
                     (r.user_id = selected[j].user_id /\ r.product_id = selected[j].product_id)
                       => \E r2 \in products' :
                             /\ r2.user_id = r.user_id
                             /\ r2.product_id = r.product_id
                             /\ r2.current_price = r.current_price
                             /\ r2.last_checked = now
               /\ price_history' = price_history
               /\ task'[j].sent_to = <<>>]_vars

\* The check of the j-th selected product has fetched a price that differs from
\* the selected row's price, and records the change in this step.
ChangeRecorded(j) ==
    /\ j \in DOMAIN task
    /\ j \in DOMAIN task'
    /\ task[j].st = "fetching"
    /\ task'[j].st = "notifying"

\* The check of the j-th selected product returns success with changed = True
\* in this step.
ChangeReported(j) ==
    /\ j \in DOMAIN task
    /\ j \in DOMAIN task'
    /\ task[j].st = "notifying"
    /\ task'[j].result = "changed"

\* Exactly one row is appended to price_history, and it is rec.
AppendsOne(rec) == price_history' = Append(price_history, rec)

\* The rows of product p hold the price q after the step.
StoredPriceBecomes(p, q) ==
    \A r \in products' : r.product_id = p => r.current_price = q

IsRounded2(x, y) == x % Cent = 0 /\ 2 * Abs(x - y) <= Cent

----------------------------------------------------------------------------
\* Properties of the Change Detector

\* The check of the j-th selected product has fetched a price and found a change.
Detected(j) == task[j].wrote /\ task[j].result # "same"

\* C11: for a product stored at 10.00, a fetched price of 10.004 is not
\* reported as a change, a fetched price of 10.01 is reported as a change, and
\* a fetched price of 9.00 is reported as a change with percent = -10.0.
C11_EpsilonExamples ==
    \A j \in DOMAIN task :
        (task[j].wrote /\ selected[j].current_price = 10000)
          => /\ task[j].price = 10004 => ~Detected(j)
             /\ task[j].price = 10010 => Detected(j)
             /\ task[j].price = 9000 =>
                   /\ Detected(j)
                   /\ \E i \in DOMAIN price_history :
                         /\ price_history[i].old_price = 10000
                         /\ price_history[i].new_price = 9000
                         /\ price_history[i].change_percent = 0 - 1000

\* C11 without the move of exactly one cent: the two other examples.
C11_OtherExamples ==
    \A j \in DOMAIN task :
        (task[j].wrote /\ selected[j].current_price = 10000)
          => /\ task[j].price = 10004 => ~Detected(j)
             /\ task[j].price = 9000 =>
                   /\ Detected(j)
                   /\ \E i \in DOMAIN price_history :
                         /\ price_history[i].old_price = 10000
                         /\ price_history[i].new_price = 9000
                         /\ price_history[i].change_percent = 0 - 1000

----------------------------------------------------------------------------
\* Properties of the selection

\* The rows of a selection.
RowsOf(sel) == {sel[i] : i \in 1..Len(sel)}

\* last_checked a is strictly later than b (no last_checked is before any time).
StrictlyLater(a, b) == a # Unset /\ (b = Unset \/ a > b)

\* C12: the selection of a cycle holds at most PRODUCTS_PER_CYCLE distinct
\* stored rows, as many as the limit lets it, and no selected row has a
\* last_checked strictly later than that of a row left out.
C12_OldestFirst ==
    mon_pc = "batch" =>
        /\ Len(selected) <= PRODUCTS_PER_CYCLE
        /\ RowsOf(selected) \subseteq products
        /\ Cardinality(RowsOf(selected)) = Len(selected)
        /\ products \ RowsOf(selected) # {} => Len(selected) = PRODUCTS_PER_CYCLE
        /\ \A r \in RowsOf(selected), x \in products \ RowsOf(selected) :
               ~StrictlyLater(r.last_checked, x.last_checked)

\* A selection that holds a row never checked and a row checked at time 1 and
\* leaves out a row checked at time 2.
C12_Witness ==
    /\ mon_pc = "batch"
    /\ \E r \in RowsOf(selected) : r.last_checked = Unset
    /\ \E r \in RowsOf(selected) : r.last_checked = 1
    /\ \E x \in products \ RowsOf(selected) : x.last_checked = 2

\* C13: with the cycles running one after the other, every stored product is
\* eventually selected for a check.
C13_NoStarvation ==
    \A p \in SelectionProducts :
        <>(\E j \in DOMAIN selected : selected[j].product_id = p)

----------------------------------------------------------------------------
\* Properties of the Product Store

\* C14: the table products never holds two rows of one (user_id, product_id).
C14_UniqueKey ==
    \A r1, r2 \in products :
        (r1.user_id = r2.user_id /\ r1.product_id = r2.product_id) => r1 = r2

\* A user has submitted a product twice, at different prices and times, and
\* holds one row of it.
C14_Witness ==
    /\ user_ops >= 2
    /\ \E r \in products :
          /\ r.current_price = 17500
          /\ r.last_checked > 0
          /\ r.country = "FR"

\* C15: a step that writes a row of user B for product p (save_product or
\* update_product_price of B) leaves the row of every other user A for p as
\* it was: after B adds p, both A and B own a row for p.
C15_IndependentUsers ==
    [][\A r \in products :
          (\E x \in products' \ products :
               x.user_id # r.user_id /\ x.product_id = r.product_id)
            => r \in products']_vars

\* C19: the last_checked of a Product record never decreases in a step.
C19_LastCheckedMonotone ==
    [][\A r \in products, x \in products' :
          (x.user_id = r.user_id /\ x.product_id = r.product_id)
            => x.last_checked >= r.last_checked]_vars

\* A row written again after the clock has moved.
C19_Witness ==
    /\ user_ops >= 2
    /\ \E r \in products : r.last_checked = now /\ now > 0 /\ r.country = "FR"

\* h is the beginning of g.
IsPrefix(h, g) == Len(h) <= Len(g) /\ \A i \in DOMAIN h : g[i] = h[i]

\* C20: a step leaves every stored PriceHistoryRecord as it is, at most
\* appending new ones, unless it is the erasure of all the data of a user.
C20_HistoryAppendOnly ==
    [][\/ IsPrefix(price_history, price_history')
       \/ \E u \in Users :
             /\ price_history' = HistoryOfOthers(price_history, u)
             /\ \A r \in products' : r.user_id # u]_vars

\* Two records are stored and a later call has left them alone.
C20_Witness ==
    /\ user_ops = MaxStoreOps
    /\ Len(price_history) = 2
    /\ price_history[1] # price_history[2]

\* C21: within a cycle no (user_id, product_id) pair is selected twice, so no
\* two checks of one pair are in flight at the same time.
C21_SelectedOnce ==
    \A i, j \in DOMAIN selected :
        (selected[i].user_id = selected[j].user_id
           /\ selected[i].product_id = selected[j].product_id) => i = j

\* Two checks of one cycle are in flight together, for products of one user.
C21_Witness ==
    \E i, j \in InFlight :
        /\ i # j
        /\ selected[i].user_id = selected[j].user_id
        /\ selected[i].product_id # selected[j].product_id

\* C23: a send of the notification that raises is swallowed: the check
\* returns success with changed = true, the PriceHistoryRecord it appended is
\* in the store, the step undoes no write of products or price_history, and
\* the other checks and the cycle are where they were.
C23_SendFailureSwallowed ==
    [][\A j \in DOMAIN task :
          (j \in DOMAIN task' /\ task[j].st = "notifying" /\ task'[j].send = "failed")
            => /\ task'[j].st = "done"
               /\ task'[j].result = "changed"
               /\ task[j].wrote
               /\ products' = products
               /\ price_history' = price_history
               /\ \E k \in DOMAIN price_history :
                     price_history[k] = HistoryRecord(selected[j].user_id,
                                                      selected[j].product_id,
                                                      selected[j].current_price, task[j].price)
               /\ \A i \in DOMAIN task \ {j} : task'[i] = task[i]
               /\ <<mon_pc', mon_running', selected', batch_first'>>
                    = <<mon_pc, mon_running, selected, batch_first>>]_vars

\* A check whose send failed has returned changed and its product still holds
\* the fetched price, while another check of the batch is in flight.
C23_Witness ==
    \E j \in DOMAIN task :
        /\ task[j].send = "failed"
        /\ task[j].result = "changed"
        /\ \E i \in InFlight : i # j
        /\ \E r \in products :
              /\ r.user_id = selected[j].user_id
              /\ r.product_id = selected[j].product_id
              /\ r.current_price = task[j].price

\* The sweep leaves its reminder loop in this step.
ReminderLoopEnds ==
    /\ \/ sweep_pc = "idle" /\ swept_today' /\ ~swept_today
       \/ sweep_pc = "reminder_sleep"
    /\ sweep_pc' # "reminder_sleep"

\* The purge loop is at user u with the users L left after u.
PurgeLoopAt(pc, u, L, P) ==
    IF P = {} THEN pc = "idle"
              ELSE pc = "purge_notify" /\ u \in P /\ L = P \ {u}

\* C24: every run of check_monthly_updates leaves its reminder loop into the
\* selection of the users past the deadline and the purge loop over them,
\* whatever the reminder jobs did; the purge of a user deletes the user's data
\* whether or not the notification was delivered and goes on with the users
\* left; a run that ends leaves no user past the deadline.
C24_SweepAlwaysRuns ==
    [][/\ ReminderLoopEnds
          => PurgeLoopAt(sweep_pc', sweep_user', purge_list',
                         get_users_past_deadline(users, now))
       /\ (sweep_pc = "purge_notify" /\ sweep_user' # sweep_user)
          => /\ get_user_products(products', sweep_user) = {}
             /\ \A i \in DOMAIN price_history' : price_history'[i].user_id # sweep_user
             /\ sweep_user \in purged'
             /\ PurgeLoopAt(sweep_pc', sweep_user', purge_list', purge_list)
       /\ pending_jobs' \subseteq pending_jobs /\ pending_jobs' # pending_jobs
          => <<sweep_pc', need_list', purge_list', sweep_user'>>
               = <<sweep_pc, need_list, purge_list, sweep_user>>
       /\ (sweep_pc' = "idle" /\ (sweep_pc # "idle" \/ swept_today' # swept_today)
              /\ now' = now)
          => get_users_past_deadline(users', now) = {}]_vars

\* A run of the sweep has purged both users although a notification of
\* removal failed, while a reminder had not been delivered either.
C24_Witness ==
    /\ sweep_pc = "idle"
    /\ purged = Users
    /\ \E u \in Users : <<"removed", u>> \notin sent
    /\ \E u \in Users : <<"reminder", u>> \notin sent
    /\ \A u \in Users : get_user_products(products, u) = {}

\* The update of the Product failed in check j: a price was fetched and the
\* products table did not take it.
StoreFailed(tk, j) == tk[j].price # Unset /\ ~tk[j].wrote

\* C25: a check whose update of the Product fails is discarded: it appends no
\* PriceHistoryRecord and dispatches no notification.
C25_StorageErrorDiscards ==
    [][\A j \in DOMAIN task :
          (j \in DOMAIN task' /\ StoreFailed(task', j))
            => /\ task[j].st = "fetching" => price_history' = price_history
               /\ task'[j].sent_to = <<>>]_vars

\* The items s are in strictly increasing order of their raw keys.
RawKeyOrder(s) == \A i, j \in DOMAIN s : i < j => StrLess(s[i][1], s[j][1])

\* C26: the string that is signed is key then value, with no separator, of
\* the entries whose key is not sign and whose value is neither None nor
\* empty, in the order of their raw keys (an uppercase letter before every
\* lowercase one); a dict that differs in insertion order, in the value of
\* sign or in entries without a value gets the same signature.
C26_Canonical ==
    /\ sig_out # <<>>
         => \E f \in [1..Cardinality(Entries(sig_params)) -> Entries(sig_params)] :
               /\ RawKeyOrder(f)
               /\ {f[i] : i \in DOMAIN f} = Entries(sig_params)
               /\ sig_out[1] = hmac_md5("app_secret", Join(f))
    /\ sig_again # <<>> => sig_again[1] = sig_out[1]

\* The second dict holds "a" before "B", both with a value, a sign and an
\* entry without a value, and got the signature of the first, which held "B"
\* before "a".
C26_Witness ==
    /\ sig_again # <<>>
    /\ sig_out[1].msg = <<66, 120, 97, 121, 122>>
    /\ Len(sig_params) = 4
    /\ sig_params[1] = <<<<97>>, Str(<<121, 122>>)>>
    /\ \E i \in DOMAIN sig_params : sig_params[i] = <<<<66>>, Str(<<120>>)>>
    /\ \E i \in DOMAIN sig_params : sig_params[i][1] = SignKey
    /\ \E i \in DOMAIN sig_params : sig_params[i][2] = Str(<<>>)

\* C27: for stored and fetched prices that are whole cents, the check reports
\* a change exactly when they differ by more than one cent.
C27_ChangedIffMoreThanCent ==
    \A j \in DOMAIN task :
        (task[j].wrote /\ Round2(selected[j].current_price) = selected[j].current_price
                       /\ Round2(task[j].price) = task[j].price)
          => (Detected(j) <=> Abs(task[j].price - selected[j].current_price) > Cent)

\* The check of the j-th selected product leaves its fetch with a price in
\* this step: the Change Detector is evaluated.
DetectorRuns(j) ==
    /\ j \in DOMAIN task
    /\ j \in DOMAIN task'
    /\ task[j].st = "fetching"
    /\ task'[j].price # Unset

\* C28: every PriceHistoryRecord holds prices at least one cent apart, and a
\* check appends a record exactly when its Change Detector reports a change.
C28_RecordIffDetected ==
    /\ [](\A i \in DOMAIN price_history :
             Abs(price_history[i].new_price - price_history[i].old_price) >= Cent)
    /\ [][\A j \in DOMAIN task :
             DetectorRuns(j)
               => /\ task'[j].st = "notifying" <=> Len(price_history') = Len(price_history) + 1
                  /\ task'[j].st # "notifying" <=> price_history' = price_history
                  /\ task'[j].st # "notifying" <=> task'[j].result = "same"]_vars

\* A record of a move of exactly one cent is in the store, appended by a
\* check that reported the change.
C28_Witness ==
    /\ \E i \in DOMAIN price_history :
          Abs(price_history[i].new_price - price_history[i].old_price) = Cent
    /\ \E j \in DOMAIN task : task[j].result = "changed"

\* C29: a successful check that reports no change sets the stored price to the
\* fetched price and last_checked to the time of the check and changes nothing
\* else of the Product; it appends no PriceHistoryRecord, dispatches no
\* notification and returns success with changed = false.
C29_NoChangeRefreshesOnly ==
    [][\A j \in DOMAIN task :
          (DetectorRuns(j) /\ ~price_changed(selected[j].current_price, task'[j].price))
            => /\ task'[j].st = "done"
               /\ task'[j].result = "same"
               /\ task'[j].sent_to = <<>>
               /\ price_history' = price_history
               /\ products' = {IF r.product_id = selected[j].product_id
                                 THEN [r EXCEPT !.current_price = task'[j].price,
                                                !.last_checked = now]
                                 ELSE r : r \in products}]_vars

\* needs_update_response of user u is set in this step.
ReminderSet(u) ==
    /\ users'[u].needs_update_response
    /\ \/ ~users[u].needs_update_response
       \/ users'[u].update_deadline # users[u].update_deadline
       \/ users'[u].last_update_reminder # users[u].last_update_reminder

\* C30: needs_update_response is set, with last_update_reminder = now and
\* update_deadline = now + UPDATE_RESPONSE_DEADLINE_DAYS, only for a user who
\* owns a product in the state in which it is set, whatever the user deleted
\* since the reminder was scheduled.
C30_ReminderSetOnlyForOwners ==
    [][\A u \in Users :
          ReminderSet(u)
            => /\ get_user_products(products, u) # {}
               /\ get_user_products(products', u) # {}
               /\ users'[u].last_update_reminder = now
               /\ users'[u].update_deadline = now + UPDATE_RESPONSE_DEADLINE_DAYS]_vars

\* A reminder has been set today, after every action the users take, for a
\* user who owns one product.
C30_Witness ==
    \E u \in Users :
        /\ users[u].needs_update_response
        /\ users[u].last_update_reminder = now
        /\ users[u].update_deadline = now + UPDATE_RESPONSE_DEADLINE_DAYS
        /\ Cardinality(get_user_products(products, u)) = 1
        /\ user_ops = MaxUserOps

\* C31: the purge leaves the user's row in the baseline (registered, with the
\* country, no flag, no deadline, last_update_reminder = now), so that the
\* user's links are accepted; a polling cycle selects the products the user
\* adds afterwards.
C31_PurgeNotTerminal ==
    /\ [][\A u \in Users :
             SweepDeletes(u)
               => /\ users'[u].registered = users[u].registered
                  /\ users'[u].country = users[u].country
                  /\ ~users'[u].needs_update_response
                  /\ users'[u].update_deadline = Unset
                  /\ users'[u].last_update_reminder = now]_vars
    /\ [](\A u \in purged : users[u].registered)
    /\ [][(mon_pc = "idle" /\ mon_pc' = "batch")
            => \A r \in products :
                  r.user_id \in purged => \E j \in DOMAIN selected' : selected'[j] = r]_vars

\* The purged user tracks a product again, a check after the purge has
\* recorded a change of its price, and the user has been reminded again.
C31_Witness ==
    \E u \in purged :
        /\ get_user_products(products, u) # {}
        /\ \E i \in DOMAIN price_history : price_history[i].user_id = u
        /\ users[u].needs_update_response
        /\ <<"reminder", u>> \in sent

\* C32: a call issues at most MAX_RETRIES + 1 requests, rate-limit retries
\* and timeouts together; a request that times out, the first one or one after
\* rate-limit retries, ends the call with the failure result of a timeout, and
\* no request follows it.
C32_TimeoutEndsCall ==
    /\ [](api_requests <= MAX_RETRIES + 1)
    /\ [](\A i \in DOMAIN api_responses :
             api_responses[i] = "timeout"
               => /\ i = Len(api_responses)
                  /\ api_pc \in {"returned", "idle"}
                  /\ api_result = [success |-> FALSE, error |-> "Request timeout"])
    /\ [][api_requests' = api_requests + 1
            => \A i \in DOMAIN api_responses : api_responses[i] = "rate_limited"]_vars

\* The call has returned the failure of a timeout that came after MAX_RETRIES
\* rate-limit retries.
C32_Witness ==
    /\ api_pc = "returned"
    /\ Len(api_responses) = MAX_RETRIES + 1
    /\ \A i \in 1..MAX_RETRIES : api_responses[i] = "rate_limited"
    /\ api_responses[MAX_RETRIES + 1] = "timeout"
    /\ api_result = [success |-> FALSE, error |-> "Request timeout"]

\* C33: every Product has current_price >= 0.
C33_PriceNotNegative == \A r \in products : r.current_price >= 0

\* ceil(n / k)
Ceil(n, k) == (n + k - 1) \div k

\* C34: a started cycle returns to idle; when it does it has run
\* ceil(n / CONCURRENT_REQUESTS) batches over its n selected products and the
\* check of each of them has completed; a check is started once and, once
\* completed, is not run again.
C34_CycleTerminates ==
    /\ (mon_pc # "idle") ~> (mon_pc = "idle")
    /\ [][(mon_pc # "idle" /\ mon_pc' = "idle")
            => /\ Len(task) = Len(selected)
               /\ \A j \in DOMAIN task : task[j].st = "done"
               /\ (batch_first - 1) \div CONCURRENT_REQUESTS + 1
                    = Ceil(Len(selected), CONCURRENT_REQUESTS)]_vars
    /\ [][\A j \in DOMAIN task :
             j \in DOMAIN task'
               => /\ (task'[j].st = "fetching" /\ task[j].st # "fetching")
                     => task[j].st = "waiting"
                  /\ task[j].st = "done" => task'[j] = task[j]]_vars

\* A cycle over three products has run its two batches and is idle again.
C34_Witness ==
    /\ mon_pc = "idle"
    /\ cycles = 1
    /\ Cardinality(products) = PRODUCTS_PER_CYCLE
    /\ \A r \in products : r.last_checked = now

\* C35: a reminder is never set for a user who is waiting for the purge, so
\* the deadline is not pushed back; the user who does not answer is purged:
\* needs_update_response, once true, becomes false again (every deadline that
\* falls before the last day of the run).
C35_EventuallyPurged ==
    /\ [][\A u \in Users : ReminderSet(u) => ~users[u].needs_update_response]_vars
    /\ \A u \in Users :
          (users[u].needs_update_response /\ users[u].update_deadline < LastDay)
            ~> (~users[u].needs_update_response /\ u \in purged)
    /\ [](\A u \in Users :
             (users[u].needs_update_response /\ swept_today /\ sweep_pc = "idle")
               => now <= users[u].update_deadline)

\* The user has been reminded a second time, after the purge that followed
\* the first reminder.
C35_Witness ==
    /\ 1 \in purged
    /\ users[1].needs_update_response
    /\ users[1].last_update_reminder > MONTHLY_UPDATE_REMINDER_DAYS

\* The three fields of the reminder state of a user.
ReminderFields(u) ==
    <<users[u].needs_update_response, users[u].update_deadline, users[u].last_update_reminder>>

\* C36: a step that changes needs_update_response, update_deadline or
\* last_update_reminder of a reminded user is the user's "continue" or the
\* purge of the deadline sweep (adding or deleting a product, changing the
\* country and the polling cycle leave them alone), and the purge leaves the
\* user no product, whenever it was added.
C36_OnlyContinueAndSweepLeave ==
    /\ [][\A u \in Users :
            (users[u].needs_update_response /\ ReminderFields(u)' # ReminderFields(u))
              => \/ handle_update_continue(u)
                 \/ sweep_user = u /\ \E d \in BOOLEAN : sweep_purge_delete(d)]_vars
    /\ [][(\E d \in BOOLEAN : sweep_purge_delete(d))
            => \A r \in products' : r.user_id # sweep_user]_vars

\* The reminded user has added product 2 after the reminder and has changed
\* the country; no polling cycle has run.
C36_Witness ==
    /\ users[1].needs_update_response
    /\ users[1].country = "FR"
    /\ cycles = 0 /\ mon_pc = "idle"
    /\ \E r \in products : /\ r.user_id = 1 /\ r.product_id = 2
                            /\ r.last_checked > users[1].last_update_reminder

\* The product of task j of the running cycle is no longer stored (product_id
\* is the key of table products).
Deleted(j) == \A r \in products : r.product_id # selected[j].product_id

\* C37: a step of a check whose product has been deleted creates no row of
\* products, appends no record to price_history and dispatches no
\* notification.
C37_DeletedProductUntouched ==
    [][\A j \in DOMAIN task :
         (mon_pc = "batch" /\ Deleted(j) /\ j \in DOMAIN task' /\ task'[j] # task[j]
            /\ task[j].st \in {"fetching", "notifying"})
           => /\ products' = products
              /\ price_history' = price_history
              /\ task'[j].st # "notifying"
              /\ task'[j].sent_to = task[j].sent_to]_vars

\* C38: the old_price of an appended price_history record is the
\* current_price the product's row held just before the check wrote the new
\* price.
C38_OldPriceIsStoredPrice ==
    [][Len(price_history') = Len(price_history) + 1
         => LET rec == price_history'[Len(price_history')]
            IN  \A r \in products :
                  r.product_id = rec.product_id => rec.old_price = r.current_price]_vars

\* The sweep schedules a reminder job (run_once) for a user of its list.
ScheduleStep ==
    /\ sweep_pc' = "reminder_sleep"
    /\ \/ sweep_pc = "idle"
       \/ sweep_pc = "reminder_sleep" /\ need_list' # need_list

\* C39: a reminder is set for a user at least MONTHLY_UPDATE_REMINDER_DAYS
\* after the user's last_update_reminder, which the previous reminder, the
\* "continue" and the purge each stamp with the current time; a reminder job
\* is scheduled only for a user who has none pending.
C39_RemindersSpaced ==
    /\ [][\A u \in Users :
            (ReminderSet(u) /\ users[u].last_update_reminder # Unset)
              => now - users[u].last_update_reminder >= MONTHLY_UPDATE_REMINDER_DAYS]_vars
    /\ [][\A u \in Users :
            (users[u].needs_update_response /\ ~users'[u].needs_update_response)
              => users'[u].last_update_reminder = now]_vars
    /\ [][ScheduleStep => pending_jobs' # pending_jobs]_vars

\* C40: a successful check whose fetched price is within one cent of the
\* stored price overwrites the stored price, appends no record to
\* price_history and notifies nobody, in every cycle of a run.
C40_SubCentRunSilent ==
    [][\A j \in DOMAIN task : \A r \in products :
         (DetectorRuns(j) /\ r.product_id = selected[j].product_id
            /\ Abs(task'[j].price - r.current_price) <= Cent)
           => /\ price_history' = price_history
              /\ task'[j].st = "done"
              /\ \A r2 \in products' :
                    r2.product_id = r.product_id => r2.current_price = task'[j].price]_vars

====
